---------------------------- MODULE Spec2Model ----------------------------
(***************************************************************************)
(* Verification model of the GROOPS Earth rotation interpolator            *)
(* (EarthRotationIers2010), the tidal force aggregator (Tides, TidesBase), *)
(* the conditional time series (TimeSeriesConditional), the program        *)
(* IfPrograms and the log file handling of groops main.                    *)
(*                                                                         *)
(* Doubles are modelled as exact rationals <<numerator, denominator>> in   *)
(* lowest terms; instants of time are integer ticks (one tick = one        *)
(* second, a day is DayTicks ticks long).                                  *)
(***************************************************************************)
EXTENDS Integers, Sequences, FiniteSets, TLC

VARIABLES nolibErfa,   \* build flag NOLIB_ERFA
          erPhase,     \* "start" | "constructed" | "failed"
          erError,     \* message of the exception the constructor threw, or ""
          eopFile,     \* the constructor's input: configuration and file content
          er,          \* the EarthRotationIers2010 object (fields)
          eopCall,     \* the last call of earthOrientationParameter and its outcome
          eopPrev      \* the call before that, when it asked for the second before

VARIABLES tdPhase,     \* "start" | "constructed"
          tdConfig,    \* the constructor's input: the tide entries of the configuration
          tides,       \* Tides::tides, the component list
          tdCall       \* the last aggregate call and its outcome

VARIABLES tscPhase,    \* "start" | "schema" | "constructed"
          tscConfig,   \* the constructor's input: the configuration element
          tsc,         \* the TimeSeriesConditional object (fields)
          tscCall,     \* the last call of times() and its outcome
          tscThreads   \* the two concurrent callers of times(): position and locals

VARIABLES ifPhase,     \* "start" | "schema" | "done" | "failed"
          ifConfig,    \* the input of IfPrograms::run: the configuration element
          ifLog        \* what the run did: programs run, programRemove calls, ...

VARIABLES mainPhase,   \* "start" | "started" | "finished" | "failed"
          mainArgs,    \* the command line: the name given to --log, the config files
          logIsDirectory, \* file system: the path of --log is an existing directory
          logging,     \* the Log object: its file and the calls of setLogFile
          mainTrace,   \* the directory tests made and the scripts run so far
          now          \* System::now(), in ticks

erVars  == <<nolibErfa, erPhase, erError, eopFile, er, eopCall, eopPrev>>
tdVars  == <<tdPhase, tdConfig, tides, tdCall>>
tscVars == <<tscPhase, tscConfig, tsc, tscCall, tscThreads>>
ifVars  == <<ifPhase, ifConfig, ifLog>>
mainVars == <<mainPhase, mainArgs, logIsDirectory, logging, mainTrace, now>>
vars    == <<erVars, tdVars, tscVars, ifVars, mainVars>>

-----------------------------------------------------------------------------
(* Bounds of the model *)

MaxRows  == 4    \* longest EOP table
MaxDay   == 3    \* the EOP time stamps are the days 0..MaxDay
DayTicks == 2    \* ticks (seconds) per day on the model's time axis
MaxConfig == 2   \* most tide entries in a configuration
MaxTimes == 3    \* longest underlying time series of a conditional time series
MaxPrograms == 3 \* most nested programs of an IfPrograms element
MaxScripts == 2  \* most config files on the command line

-----------------------------------------------------------------------------
(* Exact rational arithmetic standing for Double *)

RECURSIVE GCD(_, _)
GCD(a, b) == IF b = 0 THEN a ELSE GCD(b, a % b)

Abs(a) == IF a < 0 THEN -a ELSE a

\* a zero denominator yields <<0, 0>>, standing for NaN
Rat(n, d) ==
  IF d = 0
    THEN <<0, 0>>
    ELSE LET s == IF d < 0 THEN -1 ELSE 1
             g == GCD(Abs(n), Abs(d))
         IN  <<(s * n) \div g, (s * d) \div g>>

RInt(n)    == <<n, 1>>
RAdd(a, b) == Rat(a[1] * b[2] + b[1] * a[2], a[2] * b[2])
RSub(a, b) == Rat(a[1] * b[2] - b[1] * a[2], a[2] * b[2])
RMul(a, b) == Rat(a[1] * b[1], a[2] * b[2])
RZero      == RInt(0)

\* a sequence given by a rule, written out element by element
Listed(f) == f \o <<>>

RECURSIVE RSum(_)
RSum(s) == IF s = <<>> THEN RZero ELSE RAdd(Head(s), RSum(Tail(s)))


-----------------------------------------------------------------------------
(* Time scales.  UTC instants are counted without the leap second, so the  *)
(* offset GPS-UTC steps by one second at the leap-second instant LeapUTC.   *)

GpsMinusUtcBefore == 1       \* GPS-UTC in seconds before the leap second
LeapDay           == 1       \* the leap second is inserted at the start of this day

mjd2time(mjd) == mjd * DayTicks

LeapUTC == mjd2time(LeapDay)

LeapGPS == LeapUTC + GpsMinusUtcBefore + 1

timeUTC2GPS(timeUTC) ==
  timeUTC + GpsMinusUtcBefore + (IF timeUTC >= LeapUTC THEN 1 ELSE 0)

timeGPS2UTC(timeGPS) ==
  timeGPS - GpsMinusUtcBefore - (IF timeGPS >= LeapGPS THEN 1 ELSE 0)

timeGPS2TT(timeGPS) == timeGPS + 3

-----------------------------------------------------------------------------
(* Unit factors of the code, as rationals standing for the doubles *)

ArcsecToRad == <<1, 3>>      \* DEG2RAD/3600
Micro       == <<1, 4>>      \* 1e-6

-----------------------------------------------------------------------------
(* Error messages *)

ErrNoErfa    == "Compiled without ERFA library"
ErrNoEop     == "No EOPs available"
ErrMalformed == "EOP file malformed"
ErrPoints    == "not enough points for polynomial"

-----------------------------------------------------------------------------
(* The EOP file: a matrix with the columns mjd, xp, yp, UT1-UTC, LOD, dX,  *)
(* dY.  The raw values of the row of day d are built from the file's        *)
(* parameters a, b; UT1-UTC carries the leap-second step of UTC.            *)

RawRow(d, a, b) ==
  << d,
     a + d,
     b + 2,
     a + b * d + (timeUTC2GPS(mjd2time(d)) - mjd2time(d)),
     b + 1,
     a + 1,
     d + 2 >>

RawMatrix(file) ==
  [i \in 1..Len(file.days) |-> RawRow(file.days[i], file.a, file.b)]

StrictlyIncreasing(s) ==
  \A i \in 1..Len(s) : \A j \in 1..Len(s) : i < j => s[i] < s[j]

\* variant: a loader that hands any table on unchecked
readFileUnchecked(file) == [ok |-> TRUE, EOP |-> RawMatrix(file)]

\* readFileEarthOrientationParameter: the loader rejects a table that is not
\* sorted strictly ascending by time.
readFileEarthOrientationParameter(file) ==
  IF StrictlyIncreasing(file.days)
    THEN [ok |-> TRUE,  EOP |-> RawMatrix(file)]
    ELSE [ok |-> FALSE, EOP |-> <<>>]

-----------------------------------------------------------------------------
(* Polynomial: Lagrange interpolation through degree+1 neighbouring nodes *)

Min(a, b) == IF a < b THEN a ELSE b
Max(a, b) == IF a > b THEN a ELSE b

\* index (1-based) of the first node of the interpolation window
WindowStart(degree, t, times) ==
  LET k == Cardinality({i \in 1..Len(times) : times[i] <= t})
  IN  Max(1, Min(k - (degree \div 2), Len(times) - degree))

RECURSIVE RProd(_)
RProd(s) == IF s = <<>> THEN RInt(1) ELSE RMul(Head(s), RProd(Tail(s)))

\* Lagrange weight of node j of the window first..first+degree at time t
LagrangeWeight(degree, first, j, t, times) ==
  LET others == [m \in 1..degree |->
                   LET i == IF first + m - 1 < j THEN first + m - 1 ELSE first + m
                   IN  Rat(t - times[i], times[j] - times[i])]
  IN  RProd(others)

PolynomialInterpolate(degree, t, times, A) ==
  IF Len(times) < degree + 1
    THEN [ok |-> FALSE, row |-> <<>>]
    ELSE LET first == WindowStart(degree, t, times)
         IN  [ok  |-> TRUE,
              row |-> [c \in 1..6 |->
                         RSum([m \in 1..(degree + 1) |->
                                 RMul(A[first + m - 1][c],
                                      LagrangeWeight(degree, first, first + m - 1, t, times))])]]

-----------------------------------------------------------------------------
(* External models called by earthOrientationParameter (IERS routines and  *)
(* ERFA), as fixed functions of their time argument.                        *)

ortho_eop(mjdUTC) == <<1 + (mjdUTC % 2), 2, 1 + (mjdUTC % 3)>>
pmsdnut2(mjdUTC)  == <<3, 1 + (mjdUTC % 2)>>
utlibr(mjdUTC)    == <<2 + (mjdUTC % 2), 5>>

eraSp00(tt)       == RInt(7 + (tt % 2))
eraXys00b(tt)     == <<RInt(11 + tt), RInt(13 + tt), RInt(17 + tt)>>
eraXy06(tt)       == <<RInt(21 + tt), RInt(23 + tt)>>
eraS06(tt, X, Y)  == RAdd(RInt(27 + tt), RAdd(X, Y))

-----------------------------------------------------------------------------
(* EarthRotationIers2010 *)

NoObject == [times |-> <<>>, EOP |-> <<>>, polynomial |-> 0, useTruncated |-> FALSE]

NoFile   == [eopName |-> "", days |-> <<>>, a |-> 0, b |-> 0,
             truncatedNutation |-> FALSE, createSchema |-> FALSE]

NoCall   == [status |-> "none", timeGPS |-> 0, error |-> "", set |-> {},
             out |-> [xp |-> <<0, 1>>, yp |-> <<0, 1>>, sp |-> <<0, 1>>,
                      deltaUT |-> <<0, 1>>, LOD |-> <<0, 1>>, X |-> <<0, 1>>,
                      Y |-> <<0, 1>>, S |-> <<0, 1>>]]

PolynomialDegree == 3

RECURSIVE SeqsUpTo(_, _)
SeqsUpTo(S, n) ==
  IF n = 0
    THEN {<<>>}
    ELSE LET shorter == SeqsUpTo(S, n - 1)
         IN  shorter \cup {Append(q, x) : q \in {r \in shorter : Len(r) = n - 1}, x \in S}

Days        == 0..MaxDay
Params      == {0, 1}
EopConfigs  ==
  [eopName : {"", "eop.txt"}, days : SeqsUpTo(Days, MaxRows),
   a : Params, b : Params,
   truncatedNutation : BOOLEAN, createSchema : BOOLEAN]

\* lines 45-57: time stamps, removal of the mjd column, UT1-UTC => UT1-GPS,
\* arc seconds => radians
LoadedTimes(raw) == [i \in 1..Len(raw) |-> mjd2time(raw[i][1])]

\* variant: lines 50-52 missing, the UT1 column held as UT1-UTC
LoadedEOPKeepsUTC(raw) ==
  [i \in 1..Len(raw) |->
     << RMul(RInt(raw[i][2]), ArcsecToRad),
        RMul(RInt(raw[i][3]), ArcsecToRad),
        RInt(raw[i][4]),
        RInt(raw[i][5]),
        RMul(RInt(raw[i][6]), ArcsecToRad),
        RMul(RInt(raw[i][7]), ArcsecToRad) >>]

\* variant: lines 54-57 placed before line 48, so that the columns 0, 1, 4, 5
\* scaled are those of the matrix that still holds the mjd column
LoadedEOPScaledBeforeShift(raw) ==
  LET times == LoadedTimes(raw)
  IN  [i \in 1..Len(raw) |->
        << RMul(RInt(raw[i][2]), ArcsecToRad),
           RInt(raw[i][3]),
           RInt(raw[i][4] - (timeUTC2GPS(times[i]) - times[i])),
           RMul(RInt(raw[i][5]), ArcsecToRad),
           RMul(RInt(raw[i][6]), ArcsecToRad),
           RInt(raw[i][7]) >>]

LoadedEOP(raw) ==
  LET times == LoadedTimes(raw)
  IN  [i \in 1..Len(raw) |->
        << RMul(RInt(raw[i][2]), ArcsecToRad),
           RMul(RInt(raw[i][3]), ArcsecToRad),
           RInt(raw[i][4] - (timeUTC2GPS(times[i]) - times[i])),
           RInt(raw[i][5]),
           RMul(RInt(raw[i][6]), ArcsecToRad),
           RMul(RInt(raw[i][7]), ArcsecToRad) >>]

\* variant: polynomial.init(1), a linear model
InitPolynomialLinear(raw) == 1

\* line 59: the model bound once the table is loaded
InitPolynomial(raw) == PolynomialDegree

\* variant: the throw of lines 36-38 moved into the branch that reads the file
ConstructWithoutErfaFileOnly(cfg) == nolibErfa /\ cfg.eopName # ""

\* lines 36-38: compiled without ERFA the constructor throws
ConstructWithoutErfa(cfg) == nolibErfa

\* The constructor.  A file without a name is not part of the input, and in
\* schema mode there is no configuration to read.
Construct(cfg) ==
  /\ erPhase = "start"
  /\ cfg.eopName = "" => (cfg.days = <<>> /\ cfg.a = 0 /\ cfg.b = 0)
  /\ cfg.createSchema => (cfg.eopName = "" /\ ~cfg.truncatedNutation)
  /\ eopFile' = cfg
  /\ IF cfg.createSchema
       THEN \* readConfig only records the schema; useTruncated stays unset
            /\ erPhase' = "constructed"
            /\ erError' = ""
            /\ \E u \in BOOLEAN : er' = [NoObject EXCEPT !.useTruncated = u]
       ELSE IF ConstructWithoutErfa(cfg)
       THEN /\ erPhase' = "failed"
            /\ erError' = ErrNoErfa
            /\ er' = NoObject
       ELSE IF cfg.eopName = ""
       THEN /\ erPhase' = "constructed"
            /\ erError' = ""
            /\ er' = [NoObject EXCEPT !.useTruncated = cfg.truncatedNutation]
       ELSE LET file == readFileEarthOrientationParameter(cfg)
            IN  IF ~file.ok
                  THEN /\ erPhase' = "failed"
                       /\ erError' = ErrMalformed
                       /\ er' = NoObject
                  ELSE /\ erPhase' = "constructed"
                       /\ erError' = ""
                       /\ er' = [times        |-> LoadedTimes(file.EOP),
                                 EOP          |-> LoadedEOP(file.EOP),
                                 polynomial   |-> InitPolynomial(file.EOP),
                                 useTruncated |-> cfg.truncatedNutation]
  /\ UNCHANGED <<nolibErfa, eopCall, eopPrev>>
  /\ UNCHANGED <<tdVars, tscVars, ifVars, mainVars>>

\* variant: line 84 without the test against times.back()
OutOfRangeLowerOnly(timeUTC, times) == timeUTC < times[1]

\* variant: line 84 with <= and >=, the coverage interval taken as open
OutOfRangeOpenInterval(timeUTC, times) ==
  (timeUTC <= times[1]) \/ (timeUTC >= times[Len(times)])

\* line 84: the query lies outside the loaded series
OutOfRange(timeUTC, times) ==
  (timeUTC < times[1]) \/ (timeUTC > times[Len(times)])

\* variant: the throw of lines 74-76 moved into the branch if(EOP.size())
CallWithoutErfaLoadedOnly(timeGPS) == nolibErfa /\ Len(er.EOP) > 0

\* lines 74-76: compiled without ERFA every call throws
CallWithoutErfa(timeGPS) == nolibErfa

\* variant: line 89 without adding GPS-UTC back
DeltaUTNoOffset(eopUT, timeGPS, timeUTC) == eopUT

\* line 89
DeltaUT(eopUT, timeGPS, timeUTC) == RAdd(eopUT, RInt(timeGPS - timeUTC))

MicroArcsec == RMul(Micro, ArcsecToRad)

\* variant: lines 127-128 placed before line 125, so that the full series
\* computes S from the coordinates that already carry the offsets
WithModelsOffsetBeforeS(timeGPS, useTruncated, ip) ==
  LET mjdUTC == timeGPS2UTC(timeGPS)
      dxdydu == ortho_eop(mjdUTC)
      pm     == pmsdnut2(mjdUTC)
      lib    == utlibr(mjdUTC)
      timeTT == timeGPS2TT(timeGPS)
      xys    == IF useTruncated
                  THEN eraXys00b(timeTT)
                  ELSE LET xy == eraXy06(timeTT)
                       IN  <<xy[1], xy[2],
                             eraS06(timeTT, RAdd(xy[1], ip[5]), RAdd(xy[2], ip[6]))>>
  IN  [xp      |-> RAdd(RAdd(ip[1], RMul(RInt(dxdydu[1]), MicroArcsec)),
                        RMul(RInt(pm[1]), MicroArcsec)),
       yp      |-> RAdd(RAdd(ip[2], RMul(RInt(dxdydu[2]), MicroArcsec)),
                        RMul(RInt(pm[2]), MicroArcsec)),
       sp      |-> eraSp00(timeTT),
       deltaUT |-> RAdd(RAdd(ip[3], RMul(RInt(dxdydu[3]), Micro)),
                        RMul(RInt(lib[1]), Micro)),
       LOD     |-> RAdd(ip[4], RMul(RInt(lib[2]), Micro)),
       X       |-> RAdd(xys[1], ip[5]),
       Y       |-> RAdd(xys[2], ip[6]),
       S       |-> xys[3]]

\* variant: line 103 scaled like an angle, dxdydu[2]*1e-6*DEG2RAD/3600
WithModelsAngleScaledUT(timeGPS, useTruncated, ip) ==
  LET mjdUTC == timeGPS2UTC(timeGPS)
      dxdydu == ortho_eop(mjdUTC)
      pm     == pmsdnut2(mjdUTC)
      lib    == utlibr(mjdUTC)
      timeTT == timeGPS2TT(timeGPS)
      xys    == IF useTruncated
                  THEN eraXys00b(timeTT)
                  ELSE LET xy == eraXy06(timeTT)
                       IN  <<xy[1], xy[2], eraS06(timeTT, xy[1], xy[2])>>
  IN  [xp      |-> RAdd(RAdd(ip[1], RMul(RInt(dxdydu[1]), MicroArcsec)),
                        RMul(RInt(pm[1]), MicroArcsec)),
       yp      |-> RAdd(RAdd(ip[2], RMul(RInt(dxdydu[2]), MicroArcsec)),
                        RMul(RInt(pm[2]), MicroArcsec)),
       sp      |-> eraSp00(timeTT),
       deltaUT |-> RAdd(RAdd(ip[3], RMul(RInt(dxdydu[3]), MicroArcsec)),
                        RMul(RInt(lib[1]), Micro)),
       LOD     |-> RAdd(ip[4], RMul(RInt(lib[2]), Micro)),
       X       |-> RAdd(xys[1], ip[5]),
       Y       |-> RAdd(xys[2], ip[6]),
       S       |-> xys[3]]

\* lines 95-128: model corrections and precession/nutation on top of the
\* interpolated values xp, yp, deltaUT, LOD, dX, dY
WithModels(timeGPS, useTruncated, ip) ==
  LET mjdUTC == timeGPS2UTC(timeGPS)
      dxdydu == ortho_eop(mjdUTC)
      pm     == pmsdnut2(mjdUTC)
      lib    == utlibr(mjdUTC)
      timeTT == timeGPS2TT(timeGPS)
      xys    == IF useTruncated
                  THEN eraXys00b(timeTT)
                  ELSE LET xy == eraXy06(timeTT)
                       IN  <<xy[1], xy[2], eraS06(timeTT, xy[1], xy[2])>>
  IN  [xp      |-> RAdd(RAdd(ip[1], RMul(RInt(dxdydu[1]), MicroArcsec)),
                        RMul(RInt(pm[1]), MicroArcsec)),
       yp      |-> RAdd(RAdd(ip[2], RMul(RInt(dxdydu[2]), MicroArcsec)),
                        RMul(RInt(pm[2]), MicroArcsec)),
       sp      |-> eraSp00(timeTT),
       deltaUT |-> RAdd(RAdd(ip[3], RMul(RInt(dxdydu[3]), Micro)),
                        RMul(RInt(lib[1]), Micro)),
       LOD     |-> RAdd(ip[4], RMul(RInt(lib[2]), Micro)),
       X       |-> RAdd(xys[1], ip[5]),
       Y       |-> RAdd(xys[2], ip[6]),
       S       |-> xys[3]]

\* variant: lines 79-80 missing, the values that were in the variables before
\* the call taken for xp, yp, deltaUT, LOD, dX, dY
NotInterpolatedStale == <<RInt(1), RInt(1), RInt(1), RInt(1), RInt(1), RInt(1)>>

\* lines 79-80: xp, yp, deltaUT, LOD, dX, dY when no series is interpolated
NotInterpolated == <<RZero, RZero, RZero, RZero, RZero, RZero>>

ZeroOut == [xp |-> RZero, yp |-> RZero, sp |-> RZero, deltaUT |-> RZero,
            LOD |-> RZero, X |-> RZero, Y |-> RZero, S |-> RZero]

AllOut  == {"xp", "yp", "sp", "deltaUT", "LOD", "X", "Y", "S"}

\* The outcome of earthOrientationParameter(timeGPS, ...): `set' names the
\* output parameters the call has assigned, `out' their values.
EopOutcome(obj, timeGPS) ==
  IF CallWithoutErfa(timeGPS)
    THEN [status |-> "error", timeGPS |-> timeGPS, error |-> ErrNoErfa,
          set |-> {}, out |-> ZeroOut]
  ELSE IF Len(obj.EOP) = 0
    THEN [status |-> "ok", timeGPS |-> timeGPS, error |-> "",
          set |-> AllOut,
          out |-> WithModels(timeGPS, obj.useTruncated, NotInterpolated)]
  ELSE LET timeUTC == timeGPS2UTC(timeGPS)
       IN  IF OutOfRange(timeUTC, obj.times)
             THEN [status |-> "error", timeGPS |-> timeGPS, error |-> ErrNoEop,
                   set |-> {"xp", "yp", "deltaUT", "LOD"}, out |-> ZeroOut]
             ELSE LET eop == PolynomialInterpolate(obj.polynomial, timeUTC,
                                                   obj.times, obj.EOP)
                  IN  IF ~eop.ok
                        THEN [status |-> "error", timeGPS |-> timeGPS,
                              error |-> ErrPoints,
                              set |-> {"xp", "yp", "deltaUT", "LOD"}, out |-> ZeroOut]
                        ELSE [status |-> "ok", timeGPS |-> timeGPS, error |-> "",
                              set |-> AllOut,
                              out |-> WithModels(timeGPS, obj.useTruncated,
                                        << eop.row[1], eop.row[2],
                                           DeltaUT(eop.row[3], timeGPS, timeUTC),
                                           eop.row[4], eop.row[5], eop.row[6] >>)]

QueryTimes == 0..(mjd2time(MaxDay) + GpsMinusUtcBefore + 2)

\* variant: polynomial.init(3) of line 59 put off to the first call, which
\* writes the member polynomial
EarthOrientationParameterLazyInit(timeGPS) ==
  /\ erPhase = "constructed"
  /\ eopCall' = EopOutcome(er, timeGPS)
  /\ eopPrev' = IF eopCall.status # "none" /\ timeGPS = eopCall.timeGPS + 1
                  THEN eopCall ELSE NoCall
  /\ er' = [er EXCEPT !.polynomial = PolynomialDegree]
  /\ UNCHANGED <<nolibErfa, erPhase, erError, eopFile>>
  /\ UNCHANGED <<tdVars, tscVars, ifVars, mainVars>>

EarthOrientationParameter(timeGPS) ==
  /\ erPhase = "constructed"
  /\ eopCall' = EopOutcome(er, timeGPS)
  /\ eopPrev' = IF eopCall.status # "none" /\ timeGPS = eopCall.timeGPS + 1
                  THEN eopCall ELSE NoCall
  /\ UNCHANGED <<nolibErfa, erPhase, erError, eopFile, er>>
  /\ UNCHANGED <<tdVars, tscVars, ifVars, mainVars>>

ErInit ==
  /\ nolibErfa \in BOOLEAN
  /\ erPhase = "start"
  /\ erError = ""
  /\ eopFile = NoFile
  /\ er = NoObject
  /\ eopCall = NoCall
  /\ eopPrev = NoCall

ErNext ==
  \/ erPhase = "start" /\ \E cfg \in EopConfigs : Construct(cfg)
  \/ erPhase = "constructed" /\ \E timeGPS \in QueryTimes : EarthOrientationParameter(timeGPS)

-----------------------------------------------------------------------------
(* Tides: construction from the configuration *)

TideTypes == << "astronomicalTide", "earthTide", "doodsonHarmonicTide", "poleTide",
                "oceanPoleTide", "centrifugal", "solidMoonTide" >>

DeprecatedTypes == {"poleTide2010", "poleOceanTide2010", "moonTide"}

ChoiceNames == {TideTypes[i] : i \in 1..Len(TideTypes)} \cup DeprecatedTypes

\* lines 51-53
renameDeprecatedChoice(type, old, new) == IF type = old THEN new ELSE type

RenamedType(type) ==
  renameDeprecatedChoice(
    renameDeprecatedChoice(
      renameDeprecatedChoice(type, "poleTide2010", "poleTide"),
      "poleOceanTide2010", "oceanPoleTide"),
    "moonTide", "solidMoonTide")

\* readConfigChoiceElement: the element is the chosen one; while the schema is
\* created every element is visited
readConfigChoiceElement(createSchema, name, type) == createSchema \/ (name = type)

\* lines 55-68: the components one entry of the configuration appends
RECURSIVE ElementsFrom(_, _, _)
ElementsFrom(createSchema, type, k) ==
  IF k > Len(TideTypes)
    THEN <<>>
    ELSE (IF readConfigChoiceElement(createSchema, TideTypes[k], type)
            THEN <<TideTypes[k]>> ELSE <<>>)
         \o ElementsFrom(createSchema, type, k + 1)

\* variant: a component list that takes every type once only
RECURSIVE ReadTidesUnique(_)
ReadTidesUnique(entries) ==
  IF entries = <<>>
    THEN <<>>
    ELSE LET element == ElementsFrom(FALSE, RenamedType(Head(entries)), 1)
             others  == ReadTidesUnique(Tail(entries))
         IN  IF \E i \in 1..Len(others) : <<others[i]>> = element
               THEN others
               ELSE element \o others

\* lines 49-72: the loop over the entries; while the schema is created
\* readConfigChoice succeeds once and the loop is left after the first pass
RECURSIVE ReadTides(_)
ReadTides(entries) ==
  IF entries = <<>>
    THEN <<>>
    ELSE ElementsFrom(FALSE, RenamedType(Head(entries)), 1) \o ReadTides(Tail(entries))

TidesConfigs == [entries : SeqsUpTo(ChoiceNames, MaxConfig), createSchema : BOOLEAN]


TidesConstruct(cfg) ==
  /\ tdPhase = "start"
  /\ cfg.createSchema => cfg.entries = <<>>
  /\ tdConfig' = cfg
  /\ tdPhase' = "constructed"
  /\ tides' = IF cfg.createSchema
                THEN ElementsFrom(TRUE, "", 1)
                ELSE ReadTides(cfg.entries)
  /\ UNCHANGED tdCall
  /\ UNCHANGED <<erVars, tscVars, ifVars, mainVars>>

-----------------------------------------------------------------------------
(* The tide components.  The classes are external to the aggregator; they   *)
(* are modelled by fixed functions of their arguments.  An epoch is a pair  *)
(* <<time, rotEarth>>.                                                      *)

TideTimes == {0, 1}
Epochs    == {<<0, 0>>, <<1, 1>>}
Points    == {1, 2}

InfinityDegree == 99     \* INFINITYDEGREE
DefaultGM      == 2      \* DEFAULT_GM
DefaultR       == 1      \* DEFAULT_R

ErrNoHarmonics == "no spherical harmonics representation"

ClassIndex(class) == CHOOSE i \in 1..Len(TideTypes) : TideTypes[i] = class

\* the classes that evaluate potential, gradient and gravity directly
Overrides(class) == class \in {"astronomicalTide", "centrifugal"}

\* the pole tides ask the rotation provider for the pole coordinates, which
\* are available at time 0 only
NeedsEop(class)  == class \in {"poleTide", "oceanPoleTide"}
EopCovers(time)  == time = 0

ClassMaxDegree(class) == IF class = "doodsonHarmonicTide" THEN 2 ELSE 1

Degree(j) == CHOOSE n \in 0..j : n * n <= j /\ j < (n + 1) * (n + 1)

Coef(class, e, j) == ((ClassIndex(class) * (j + 1) + e[1] + e[2]) % 3) - 1

GMRFactor(GM, R) == (3 - GM) * (3 - R)

\* SphericalHarmonics(): the default-constructed field
EmptyHarmonics == [GM |-> DefaultGM, R |-> DefaultR, maxDegree |-> 0, x |-> <<0>>]

\* <class>::sphericalHarmonics(time, rotEarth, rotation, ephemerides,
\*                             maxDegree, minDegree, GM, R)
ComponentHarmonics(class, e, maxDegree, minDegree, GM, R) ==
  IF class = "centrifugal"
    THEN [ok |-> FALSE, error |-> ErrNoHarmonics, value |-> EmptyHarmonics]
  ELSE IF NeedsEop(class) /\ ~EopCovers(e[1])
    THEN [ok |-> FALSE, error |-> ErrNoEop, value |-> EmptyHarmonics]
  ELSE LET N == IF maxDegree = InfinityDegree THEN ClassMaxDegree(class) ELSE maxDegree
       IN  [ok |-> TRUE, error |-> "",
            value |-> [GM |-> GM, R |-> R, maxDegree |-> N,
                       x |-> Listed([j \in 1..((N + 1) * (N + 1)) |->
                                IF Degree(j - 1) < minDegree
                                   \/ Degree(j - 1) > ClassMaxDegree(class)
                                  THEN 0
                                  ELSE Coef(class, e, j - 1) * GMRFactor(GM, R)])]]

\* SphericalHarmonics::operator+=
HarmonicsAdd(a, b) ==
  LET N == Max(a.maxDegree, b.maxDegree)
  IN  [GM |-> a.GM, R |-> a.R, maxDegree |-> N,
       x |-> Listed([j \in 1..((N + 1) * (N + 1)) |->
                (IF j <= Len(a.x) THEN a.x[j] ELSE 0)
                + (IF j <= Len(b.x) THEN b.x[j] ELSE 0)])]

\* Vector3d(), Tensor3d(): zero; the operators += and + work by element
ZeroValue(n) == IF n = 3 THEN <<0, 0, 0>> ELSE IF n = 1 THEN <<0>> ELSE [i \in 1..n |-> 0]
Zero3 == ZeroValue(3)
ValueAdd(a, b) ==
  IF Len(a) = 3 THEN <<a[1] + b[1], a[2] + b[2], a[3] + b[3]>>
  ELSE IF Len(a) = 1 THEN <<a[1] + b[1]>>
  ELSE [i \in 1..Len(a) |-> a[i] + b[i]]
ValueScale(c, a) ==
  IF Len(a) = 3 THEN <<c * a[1], c * a[2], c * a[3]>>
  ELSE IF Len(a) = 1 THEN <<c * a[1]>>
  ELSE [i \in 1..Len(a) |-> c * a[i]]

RECURSIVE ValueSum(_, _)
ValueSum(s, n) == IF s = <<>> THEN ZeroValue(n) ELSE ValueAdd(Head(s), ValueSum(Tail(s), n))

\* number of elements of the result of an operation
ValueSize(op) ==
  CASE op = "potential"       -> 1
    [] op = "radialGradient"  -> 1
    [] op = "gravity"         -> 3
    [] op = "gravityGradient" -> 6

\* SphericalHarmonics::potential, radialGradient, gravity, gravityGradient at
\* a point: linear in the coefficients; column j of the operator
HarmonicsBasis(op, point, j) ==
  CASE op = "potential"       -> <<point + j>>
    [] op = "radialGradient"  -> <<point * (j + 1)>>
    [] op = "gravity"         -> <<point + j, point - j, j + 1>>
    [] op = "gravityGradient" -> <<point, j, point + j, point * j, 1, j + 2>>

HarmonicsApply(op, harm, point) ==
  ValueSum([j \in 1..Len(harm.x) |-> ValueScale(harm.x[j], HarmonicsBasis(op, point, j - 1))],
           ValueSize(op))

\* the direct evaluation of the overriding classes
DirectValue(class, op, e, point) ==
  LET c == ClassIndex(class) + e[1] + 3 * e[2]
  IN  CASE op = "potential"       -> <<c + point>>
        [] op = "radialGradient"  -> <<c - point>>
        [] op = "gravity"         -> <<c, point, c + point>>
        [] op = "gravityGradient" -> <<c, c + 1, point, point + 1, c * point, 1>>

-----------------------------------------------------------------------------
(* TidesBase: the default operations derive from sphericalHarmonics *)

\* sphericalHarmonics(time, rotEarth, rotation, ephemerides) with the default
\* arguments maxDegree, minDegree, GM, R
DefaultHarmonics(class, e) ==
  ComponentHarmonics(class, e, InfinityDegree, 0, DefaultGM, DefaultR)

\* variant: radialGradient written as a copy of potential, line 231 still
\* calling .potential(point)
TidesBaseValueCopied(class, op, e, point) ==
  LET h == DefaultHarmonics(class, e)
      applied == IF op = "radialGradient" THEN "potential" ELSE op
  IN  IF h.ok
        THEN [ok |-> TRUE, error |-> "", evals |-> 1,
              value |-> HarmonicsApply(applied, h.value, point)]
        ELSE [ok |-> FALSE, error |-> h.error, evals |-> 1,
              value |-> ZeroValue(ValueSize(op))]

\* TidesBase::potential, radialGradient, gravity, gravityGradient, lines
\* 220-248; `evals' counts the evaluations of sphericalHarmonics
TidesBaseValue(class, op, e, point) ==
  LET h == DefaultHarmonics(class, e)
  IN  IF h.ok
        THEN [ok |-> TRUE, error |-> "", evals |-> 1,
              value |-> HarmonicsApply(op, h.value, point)]
        ELSE [ok |-> FALSE, error |-> h.error, evals |-> 1,
              value |-> ZeroValue(ValueSize(op))]

\* the virtual call tides.at(i)-><op>(timeGPS, point, rotEarth, rotation, ephemerides)
ComponentValue(class, op, e, point) ==
  IF Overrides(class)
    THEN [ok |-> TRUE, error |-> "", evals |-> 0,
          value |-> DirectValue(class, op, e, point)]
    ELSE TidesBaseValue(class, op, e, point)

-----------------------------------------------------------------------------
(* TidesBase::deformationMatrix.  The doubles of the deformation path are   *)
(* integers: the gravity values, Love numbers, GM and R of the model are    *)
(* chosen such that every quotient of the code is a whole number.           *)

Inner(a, b) == a[1] * b[1] + a[2] * b[2] + a[3] * b[3]

\* sqrt, rounded down
IntRoot(k) == CHOOSE r \in 0..k : r * r <= k /\ k < (r + 1) * (r + 1)

\* sqrt((2n+1)/(2n+3)), as a whole number
DegreeFactor(n) == n + 1

\* normalize(point): the points 1, 2, 3 lie on the three axes
Up(point) == <<IF point % 3 = 1 THEN 1 ELSE 0,
               IF point % 3 = 2 THEN 1 ELSE 0,
               IF point % 3 = 0 THEN 1 ELSE 0>>

\* SphericalHarmonics::CnmSnm(1/R * point, maxDegree+1, Cnm, Snm)
Cnm(point, R, n, m) == ((point + n + 2 * m + R) % 3) + 1
Snm(point, R, n, m) == IF m = 0 THEN 0 ELSE ((2 * point + n + m + R) % 3)

Gravity(point) == 1 + (point % 2)
LoveH == <<2, 4, 6, 2>>
LoveL == <<4, 2, 2, 6>>

\* lines 317-318, 339-340, 349-350
Displacement(up, gravity, h, l, Vn, gradVn) ==
  ValueAdd(ValueScale((h \div gravity) * Vn, up),
           ValueScale(l \div gravity,
                      ValueAdd(gradVn, ValueScale(-Inner(gradVn, up), up))))

\* lines 306-323: the column of order 0 of degree n
ColumnOrder0(point, gravity, hn, ln, GM, R, n) ==
  LET wm0 == IntRoot((n + 1) * (n + 1))
      wp1 == IntRoot((n + 1) * (n + 2)) \div IntRoot(2)
      Cm0 == wm0 * Cnm(point, R, n + 1, 0)
      Cp1 == wp1 * Cnm(point, R, n + 1, 1)
      Sp1 == wp1 * Snm(point, R, n + 1, 1)
      Vn  == (GM \div R) * Cnm(point, R, n, 0)
      gradVn == ValueScale((GM \div (2 * R)) * DegreeFactor(n),
                           <<-2 * Cp1, -2 * Sp1, -2 * Cm0>>)
  IN  Displacement(Up(point), gravity, hn[n + 1], ln[n + 1], Vn, gradVn)

\* lines 326-355: the cosine (cs = 0) and sine (cs = 1) column of degree n, order m
ColumnOrderM(point, gravity, hn, ln, GM, R, n, m, cs) ==
  LET wm1 == IntRoot((n - m + 1) * (n - m + 2)) * (IF m = 1 THEN IntRoot(2) ELSE 1)
      wm0 == IntRoot((n - m + 1) * (n + m + 1))
      wp1 == IntRoot((n + m + 1) * (n + m + 2))
      Cm1 == wm1 * Cnm(point, R, n + 1, m - 1)
      Sm1 == wm1 * Snm(point, R, n + 1, m - 1)
      Cm0 == wm0 * Cnm(point, R, n + 1, m)
      Sm0 == wm0 * Snm(point, R, n + 1, m)
      Cp1 == wp1 * Cnm(point, R, n + 1, m + 1)
      Sp1 == wp1 * Snm(point, R, n + 1, m + 1)
      f   == (GM \div (2 * R)) * DegreeFactor(n)
      Vn  == (GM \div R) * (IF cs = 0 THEN Cnm(point, R, n, m) ELSE Snm(point, R, n, m))
      gradVn == IF cs = 0
                  THEN ValueScale(f, <<Cm1 - Cp1, -Sm1 - Sp1, -2 * Cm0>>)
                  ELSE ValueScale(f, <<Sm1 - Sp1, Cm1 + Cp1, -2 * Sm0>>)
  IN  Displacement(Up(point), gravity, hn[n + 1], ln[n + 1], Vn, gradVn)

\* the columns written for one point, in the order of the loops: <<n, m, cs, column>>
RECURSIVE WritesOrder0(_, _)
WritesOrder0(n, maxDegree) ==
  IF n > maxDegree THEN <<>>
  ELSE <<[n |-> n, m |-> 0, cs |-> 0, col |-> n * n]>> \o WritesOrder0(n + 1, maxDegree)

\* variant: the columns of order m counted from n*n + 2m, one too far
RECURSIVE WritesOrderMShifted(_, _, _)
WritesOrderMShifted(m, n, maxDegree) ==
  IF m > maxDegree THEN <<>>
  ELSE IF n > maxDegree THEN WritesOrderMShifted(m + 1, m + 1, maxDegree)
  ELSE << [n |-> n, m |-> m, cs |-> 0, col |-> n * n + 2 * m],
          [n |-> n, m |-> m, cs |-> 1, col |-> n * n + 2 * m + 1] >>
       \o WritesOrderMShifted(m, n + 1, maxDegree)

RECURSIVE WritesOrderM(_, _, _)
WritesOrderM(m, n, maxDegree) ==
  IF m > maxDegree THEN <<>>
  ELSE IF n > maxDegree THEN WritesOrderM(m + 1, m + 1, maxDegree)
  ELSE << [n |-> n, m |-> m, cs |-> 0, col |-> n * n + 2 * m - 1],
          [n |-> n, m |-> m, cs |-> 1, col |-> n * n + 2 * m] >>
       \o WritesOrderM(m, n + 1, maxDegree)

ColumnWrites(maxDegree) == WritesOrder0(0, maxDegree) \o WritesOrderM(1, 1, maxDegree)

\* the matrix: A[k][c + 1] is the triple of the rows 3k-3..3k-1 (point k) in
\* column c; an entry no loop writes keeps the zero of Matrix(rows, columns)
DeformationMatrix(point, gravity, hn, ln, GM, R, maxDegree) ==
  LET writes == ColumnWrites(maxDegree)
  IN  Listed([k \in 1..Len(point) |->
        Listed([c \in 1..((maxDegree + 1) * (maxDegree + 1)) |->
           LET W == {w \in 1..Len(writes) : writes[w].col = c - 1}
           IN  IF W = {}
                 THEN Zero3
                 ELSE LET w == writes[CHOOSE i \in W : \A j \in W : j <= i]
                      IN  IF w.m = 0
                            THEN ColumnOrder0(point[k], gravity[k], hn, ln, GM, R, w.n)
                            ELSE ColumnOrderM(point[k], gravity[k], hn, ln, GM, R,
                                              w.n, w.m, w.cs)])])


\* Vector Ax = A * x, as one triple per point
MatrixTimes(A, x) ==
  Listed([k \in 1..Len(A) |->
            ValueSum([c \in 1..Len(x) |-> ValueScale(x[c], A[k][c])], 3)])

-----------------------------------------------------------------------------
(* TidesBase::deformation, single point and batch *)

\* SphericalHarmonics::deformation(point, gravity, hn, ln): the displacement
\* operator of the field at one point
HarmonicsDeformation(harm, point, gravity, hn, ln) ==
  MatrixTimes(DeformationMatrix(<<point>>, <<gravity>>, hn, ln,
                                harm.GM, harm.R, harm.maxDegree), harm.x)[1]

\* lines 252-257
TidesBaseDeformation(class, e, point, gravity, hn, ln) ==
  LET h == DefaultHarmonics(class, e)
  IN  IF h.ok
        THEN [ok |-> TRUE, error |-> "", evals |-> 1,
              value |-> HarmonicsDeformation(h.value, point, gravity, hn, ln)]
        ELSE [ok |-> FALSE, error |-> h.error, evals |-> 1, value |-> Zero3]

\* variant: lines 277-279 with = in place of +=
AddEpochAssign(disp, i, Ax, nPoints) ==
  Listed([k \in 1..Len(disp) |->
     IF k <= nPoints THEN [disp[k] EXCEPT ![i] = Ax[k]] ELSE disp[k]])

\* lines 275-280: disp.at(k).at(i) += Ax(3k..3k+2) for every point k
AddEpoch(disp, i, Ax, nPoints) ==
  Listed([k \in 1..Len(disp) |->
     IF k <= nPoints THEN [disp[k] EXCEPT ![i] = ValueAdd(@, Ax[k])] ELSE disp[k]])

\* variant: line 271 moved into the loop over the epochs, a matrix built for
\* every epoch
RECURSIVE BatchEpochsRebuild(_, _, _, _, _, _, _)
BatchEpochsRebuild(class, A, epochs, i, nPoints, disp, evals) ==
  IF i > Len(epochs)
    THEN [ok |-> TRUE, error |-> "", disp |-> disp, evals |-> evals,
          matrices |-> Len(epochs)]
    ELSE LET h == DefaultHarmonics(class, epochs[i])
         IN  IF ~h.ok
               THEN [ok |-> FALSE, error |-> h.error, disp |-> disp,
                     evals |-> evals + 1, matrices |-> i - 1]
               ELSE BatchEpochsRebuild(class, A, epochs, i + 1, nPoints,
                                       AddEpoch(disp, i, MatrixTimes(A, h.value.x), nPoints),
                                       evals + 1)

\* variant: line 274 evaluating the field at time.at(0) for every epoch
RECURSIVE BatchEpochsFirstEpoch(_, _, _, _, _, _, _)
BatchEpochsFirstEpoch(class, A, epochs, i, nPoints, disp, evals) ==
  IF i > Len(epochs)
    THEN [ok |-> TRUE, error |-> "", disp |-> disp, evals |-> evals, matrices |-> 1]
    ELSE LET h == DefaultHarmonics(class, epochs[1])
         IN  IF ~h.ok
               THEN [ok |-> FALSE, error |-> h.error, disp |-> disp,
                     evals |-> evals + 1, matrices |-> 1]
               ELSE BatchEpochsFirstEpoch(class, A, epochs, i + 1, nPoints,
                                          AddEpoch(disp, i, MatrixTimes(A, h.value.x), nPoints),
                                          evals + 1)

\* lines 272-281: the loop over the epochs from epoch i on; `evals' counts the
\* evaluations of sphericalHarmonics
RECURSIVE BatchEpochs(_, _, _, _, _, _, _)
BatchEpochs(class, A, epochs, i, nPoints, disp, evals) ==
  IF i > Len(epochs)
    THEN [ok |-> TRUE, error |-> "", disp |-> disp, evals |-> evals, matrices |-> 1]
    ELSE LET h == DefaultHarmonics(class, epochs[i])
         IN  IF ~h.ok
               THEN [ok |-> FALSE, error |-> h.error, disp |-> disp,
                     evals |-> evals + 1, matrices |-> 1]
               ELSE BatchEpochs(class, A, epochs, i + 1, nPoints,
                                AddEpoch(disp, i, MatrixTimes(A, h.value.x), nPoints),
                                evals + 1)

\* lines 261-287
TidesBaseDeformationBatch(class, epochs, point, gravity, hn, ln, disp) ==
  IF Len(epochs) = 0 \/ Len(point) = 0
    THEN [ok |-> TRUE, error |-> "", disp |-> disp, evals |-> 0, matrices |-> 0]
    ELSE LET harm == DefaultHarmonics(class, epochs[1])
         IN  IF ~harm.ok
               THEN [ok |-> FALSE, error |-> harm.error, disp |-> disp,
                     evals |-> 1, matrices |-> 0]
               ELSE BatchEpochs(class,
                                DeformationMatrix(point, gravity, hn, ln, harm.value.GM,
                                                  harm.value.R, harm.value.maxDegree),
                                epochs, 1, Len(point), disp, 1)

-----------------------------------------------------------------------------
(* Tides: the aggregate operations.  A result names the number of          *)
(* components called (`called') besides the value.                          *)

\* variant: a try/catch inside the loop body that skips a component that
\* throws and carries on with the next one
RECURSIVE SumComponentsSkipFailed(_, _, _, _, _, _)
SumComponentsSkipFailed(list, i, acc, op, e, point) ==
  IF i > Len(list)
    THEN [status |-> "ok", error |-> "", value |-> acc, called |-> i - 1, evals |-> 0]
    ELSE LET r == ComponentValue(list[i], op, e, point)
             rest == SumComponentsSkipFailed(list, i + 1,
                                             IF r.ok THEN ValueAdd(acc, r.value) ELSE acc,
                                             op, e, point)
         IN  [rest EXCEPT !.evals = @ + r.evals]

\* variant: the loop body assigning (=) where the code accumulates (+=)
RECURSIVE SumComponentsAssign(_, _, _, _, _, _)
SumComponentsAssign(list, i, acc, op, e, point) ==
  IF i > Len(list)
    THEN [status |-> "ok", error |-> "", value |-> acc, called |-> i - 1, evals |-> 0]
    ELSE LET r == ComponentValue(list[i], op, e, point)
         IN  IF ~r.ok
               THEN [status |-> "error", error |-> r.error,
                     value |-> ZeroValue(ValueSize(op)), called |-> i,
                     evals |-> r.evals]
               ELSE [SumComponentsAssign(list, i + 1, r.value, op, e, point)
                       EXCEPT !.evals = @ + r.evals]

\* lines 96-97, 114-115, 132-133, 150-151: the loop from component i on
RECURSIVE SumComponents(_, _, _, _, _, _)
SumComponents(list, i, acc, op, e, point) ==
  IF i > Len(list)
    THEN [status |-> "ok", error |-> "", value |-> acc, called |-> i - 1, evals |-> 0]
    ELSE LET r == ComponentValue(list[i], op, e, point)
         IN  IF ~r.ok
               THEN [status |-> "error", error |-> r.error,
                     value |-> ZeroValue(ValueSize(op)), called |-> i,
                     evals |-> r.evals]
               ELSE [SumComponents(list, i + 1, ValueAdd(acc, r.value), op, e, point)
                       EXCEPT !.evals = @ + r.evals]

\* Tides::potential, radialGradient, acceleration, gradient: `op' is the
\* component operation called
Aggregate(list, op, e, point) ==
  SumComponents(list, 1, ZeroValue(ValueSize(op)), op, e, point)

\* lines 169-170
RECURSIVE SumDeformation(_, _, _, _, _, _, _, _)
SumDeformation(list, i, pos, e, point, gravity, hn, ln) ==
  IF i > Len(list)
    THEN [status |-> "ok", error |-> "", value |-> pos, called |-> i - 1, evals |-> 0]
    ELSE LET r == TidesBaseDeformation(list[i], e, point, gravity, hn, ln)
         IN  IF ~r.ok
               THEN [status |-> "error", error |-> r.error, value |-> Zero3, called |-> i,
                     evals |-> r.evals]
               ELSE [SumDeformation(list, i + 1, ValueAdd(pos, r.value), e, point,
                                    gravity, hn, ln)
                       EXCEPT !.evals = @ + r.evals]

\* Tides::deformation, single point
AggregateDeformation(list, e, point, gravity, hn, ln) ==
  SumDeformation(list, 1, Zero3, e, point, gravity, hn, ln)

\* variant: every component works on a copy of disp that is handed back only
\* when the component returns
RECURSIVE BatchComponentsCommit(_, _, _, _, _, _, _, _, _, _)
BatchComponentsCommit(list, i, epochs, point, gravity, hn, ln, disp, evals, matrices) ==
  IF i > Len(list)
    THEN [status |-> "ok", error |-> "", disp |-> disp, called |-> i - 1,
          evals |-> evals, matrices |-> matrices]
    ELSE LET r == TidesBaseDeformationBatch(list[i], epochs, point, gravity, hn, ln, disp)
         IN  IF ~r.ok
               THEN [status |-> "error", error |-> r.error, disp |-> disp, called |-> i,
                     evals |-> evals + r.evals, matrices |-> matrices + r.matrices]
               ELSE BatchComponentsCommit(list, i + 1, epochs, point, gravity, hn, ln, r.disp,
                                          evals + r.evals, matrices + r.matrices)

\* lines 187-188
RECURSIVE BatchComponents(_, _, _, _, _, _, _, _, _, _)
BatchComponents(list, i, epochs, point, gravity, hn, ln, disp, evals, matrices) ==
  IF i > Len(list)
    THEN [status |-> "ok", error |-> "", disp |-> disp, called |-> i - 1,
          evals |-> evals, matrices |-> matrices]
    ELSE LET r == TidesBaseDeformationBatch(list[i], epochs, point, gravity, hn, ln, disp)
         IN  IF ~r.ok
               THEN [status |-> "error", error |-> r.error, disp |-> r.disp, called |-> i,
                     evals |-> evals + r.evals, matrices |-> matrices + r.matrices]
               ELSE BatchComponents(list, i + 1, epochs, point, gravity, hn, ln, r.disp,
                                    evals + r.evals, matrices + r.matrices)

\* Tides::deformation, batch
AggregateDeformationBatch(list, epochs, point, gravity, hn, ln, disp) ==
  BatchComponents(list, 1, epochs, point, gravity, hn, ln, disp, 0, 0)

\* lines 207-208: the loop from component i on; `calls' lists the arguments
\* every component was called with
RECURSIVE SumHarmonics(_, _, _, _, _)
SumHarmonics(list, i, harmonics, calls, args) ==
  IF i > Len(list)
    THEN [status |-> "ok", error |-> "", value |-> harmonics, calls |-> calls]
    ELSE LET r == ComponentHarmonics(list[i], args.e, args.maxDegree, args.minDegree,
                                     args.GM, args.R)
             log == Append(calls, [component |-> i, args |-> args])
         IN  IF ~r.ok
               THEN [status |-> "error", error |-> r.error, value |-> EmptyHarmonics,
                     calls |-> log]
               ELSE SumHarmonics(list, i + 1, HarmonicsAdd(harmonics, r.value), log, args)

\* variant: the loop of line 207 starting at component 0 again
HarmonicsOfAllFromZero(list, args) ==
  LET first == ComponentHarmonics(list[1], args.e, args.maxDegree, args.minDegree,
                                  args.GM, args.R)
      log   == <<[component |-> 1, args |-> args]>>
  IN  IF ~first.ok
        THEN [status |-> "error", error |-> first.error, value |-> EmptyHarmonics,
              calls |-> log]
        ELSE SumHarmonics(list, 1, first.value, log, args)

\* lines 205-209: the field of the first component, then the others added
HarmonicsOfAll(list, args) ==
  LET first == ComponentHarmonics(list[1], args.e, args.maxDegree, args.minDegree,
                                  args.GM, args.R)
      log   == <<[component |-> 1, args |-> args]>>
  IN  IF ~first.ok
        THEN [status |-> "error", error |-> first.error, value |-> EmptyHarmonics,
              calls |-> log]
        ELSE SumHarmonics(list, 2, first.value, log, args)

\* variant: lines 202-203 missing, so that tides.at(0) throws on an empty list
AggregateHarmonicsUnguarded(list, args) ==
  IF list = <<>>
    THEN [status |-> "error", error |-> "vector::_M_range_check",
          value |-> EmptyHarmonics, calls |-> <<>>]
    ELSE HarmonicsOfAll(list, args)

\* Tides::sphericalHarmonics, lines 198-215
AggregateHarmonics(list, args) ==
  IF list = <<>>
    THEN [status |-> "ok", error |-> "", value |-> EmptyHarmonics, calls |-> <<>>]
    ELSE HarmonicsOfAll(list, args)

-----------------------------------------------------------------------------
(* Tides: the calls *)

EpochLists == {<<>>, <<<<0, 0>>, <<1, 1>>>>, <<<<1, 1>>, <<0, 0>>>>}
PointLists == {<<>>, <<1, 2>>}

HarmonicsArgs ==
  [e : Epochs, maxDegree : {1, InfinityDegree}, minDegree : {0, 1},
   GM : {DefaultGM}, R : {DefaultR}]
  \cup [e : Epochs, maxDegree : {1, InfinityDegree}, minDegree : {0, 1},
        GM : {1}, R : {2}]

NoArgs == [e |-> <<0, 0>>, maxDegree |-> 0, minDegree |-> 0, GM |-> 0, R |-> 0]

NoTidesCall ==
  [op |-> "none", e |-> <<0, 0>>, point |-> 0, epochs |-> <<>>, points |-> <<>>,
   args |-> NoArgs, dispBefore |-> <<>>, status |-> "none", error |-> "",
   value |-> <<>>, disp |-> <<>>, called |-> 0, calls |-> <<>>, evals |-> 0,
   matrices |-> 0]

GravityOf(points) == Listed([k \in 1..Len(points) |-> Gravity(points[k])])

\* the caller's array disp[k][i], every element <<init, init, init>>
DispArray(nPoints, nEpochs, init) ==
  Listed([k \in 1..nPoints |-> Listed([i \in 1..nEpochs |-> <<init, init, init>>])])

\* disp belongs to the caller, who has sized it for the longest lists of
\* points and epochs it passes: a call with an empty list finds elements in
\* disp that it has to leave alone
MostPoints == CHOOSE n \in {Len(p) : p \in PointLists} : \A p \in PointLists : Len(p) <= n
MostEpochs == CHOOSE n \in {Len(e) : e \in EpochLists} : \A e \in EpochLists : Len(e) <= n

TidesFrame == UNCHANGED <<tdPhase, tdConfig, tides>> /\ UNCHANGED <<erVars, tscVars, ifVars, mainVars>>

\* the aggregator is constructed and has not been called yet
TidesReady == tdPhase = "constructed" /\ tdCall.op = "none"

TidesCallValue(name, op, e, point) ==
  /\ TidesReady
  /\ LET r == Aggregate(tides, op, e, point)
     IN  tdCall' = [NoTidesCall EXCEPT !.op = name, !.e = e, !.point = point,
                      !.status = r.status, !.error = r.error, !.value = r.value,
                      !.called = r.called, !.evals = r.evals]
  /\ TidesFrame

TidesPotential(e, point)      == TidesCallValue("potential", "potential", e, point)
TidesRadialGradient(e, point) == TidesCallValue("radialGradient", "radialGradient", e, point)
TidesAcceleration(e, point)   == TidesCallValue("acceleration", "gravity", e, point)
TidesGradient(e, point)       == TidesCallValue("gradient", "gravityGradient", e, point)

TidesDeformation(e, point) ==
  /\ TidesReady
  /\ LET r == AggregateDeformation(tides, e, point, Gravity(point), LoveH, LoveL)
     IN  tdCall' = [NoTidesCall EXCEPT !.op = "deformation", !.e = e, !.point = point,
                      !.status = r.status, !.error = r.error, !.value = r.value,
                      !.called = r.called, !.evals = r.evals]
  /\ TidesFrame

TidesDeformationBatch(epochs, points, init) ==
  /\ TidesReady
  /\ LET before == DispArray(MostPoints, MostEpochs, init)
         r == AggregateDeformationBatch(tides, epochs, points, GravityOf(points),
                                        LoveH, LoveL, before)
     IN  tdCall' = [NoTidesCall EXCEPT !.op = "deformationBatch", !.epochs = epochs,
                      !.points = points, !.dispBefore = before,
                      !.status = r.status, !.error = r.error, !.disp = r.disp,
                      !.called = r.called, !.evals = r.evals, !.matrices = r.matrices]
  /\ TidesFrame

TidesSphericalHarmonics(args) ==
  /\ TidesReady
  /\ LET r == AggregateHarmonics(tides, args)
     IN  tdCall' = [NoTidesCall EXCEPT !.op = "sphericalHarmonics", !.args = args,
                      !.status = r.status, !.error = r.error, !.value = r.value,
                      !.calls = r.calls, !.called = Len(r.calls)]
  /\ TidesFrame

TdInit ==
  /\ tdPhase = "start"
  /\ tdConfig = [entries |-> <<>>, createSchema |-> FALSE]
  /\ tides = <<>>
  /\ tdCall = NoTidesCall

TdNext ==
  \/ tdPhase = "start" /\ \E cfg \in TidesConfigs : TidesConstruct(cfg)
  \/ TidesReady /\ \E e \in Epochs, point \in Points : TidesPotential(e, point)
  \/ TidesReady /\ \E e \in Epochs, point \in Points : TidesRadialGradient(e, point)
  \/ TidesReady /\ \E e \in Epochs, point \in Points : TidesAcceleration(e, point)
  \/ TidesReady /\ \E e \in Epochs, point \in Points : TidesGradient(e, point)
  \/ TidesReady /\ \E e \in Epochs, point \in Points : TidesDeformation(e, point)
  \/ TidesReady /\ \E epochs \in EpochLists, points \in PointLists, init \in {0, 1} :
                     TidesDeformationBatch(epochs, points, init)
  \/ TidesReady /\ \E args \in HarmonicsArgs : TidesSphericalHarmonics(args)

-----------------------------------------------------------------------------
(* TimeSeriesConditional.  A variable list maps the names of the variables  *)
(* that exist to their values, MJDs as rationals; Undefined is the value of *)
(* a variable that has been added and not yet set.                          *)

Undefined == <<0, 0>>

EmptyVarList == [n \in {} |-> Undefined]

\* addVariable(name, varList)
addVariable(name, varList) ==
  [n \in DOMAIN varList \cup {name} |-> IF n = name THEN Undefined ELSE varList[n]]

\* varList[name]->setValue(value)
setValue(varList, name, value) == [varList EXCEPT ![name] = value]

\* Time::mjd()
mjd(t) == Rat(t, DayTicks)

\* The conditions of the model: "always", "never", and "wholeDay", which is
\* met when the variable `var' holds a whole MJD and throws when the
\* variable does not exist or has no value.
Conditions ==
  [kind : {"always", "never"}, var : {""}]
  \cup [kind : {"wholeDay"}, var : {"loopTime", "t2"}]

ErrUnknownVariable == "unknown variable"

\* conditionPtr->condition(varList)
condition(c, varList) ==
  IF c.kind = "always" THEN [ok |-> TRUE, met |-> TRUE]
  ELSE IF c.kind = "never" THEN [ok |-> TRUE, met |-> FALSE]
  ELSE IF c.var \notin DOMAIN varList THEN [ok |-> FALSE, met |-> FALSE]
  ELSE IF varList[c.var] = Undefined THEN [ok |-> FALSE, met |-> FALSE]
  ELSE [ok |-> TRUE, met |-> varList[c.var][2] = 1]

\* the inputs: the times of the underlying series in any order, with
\* repetitions; the variables of the enclosing configuration
SeriesTimes    == 0..DayTicks
ConfigVarLists == {EmptyVarList, [n \in {"loopTime"} |-> RInt(1)]}
TscConfigs ==
  [timeSeries : SeqsUpTo(SeriesTimes, MaxTimes), variableLoopTime : {"", "loopTime", "t2"},
   condition : Conditions, varList : ConfigVarLists, createSchema : BOOLEAN]

NoTsc     == [timeSeries |-> <<>>, conditionPtr |-> [kind |-> "never", var |-> ""],
              nameTime |-> "", varList |-> EmptyVarList]
NoTscCall == [status |-> "none", error |-> "", kept |-> <<>>, evaluated |-> <<>>]

\* the constructor, lines 52-69
TscConstruct(cfg) ==
  /\ tscPhase = "start"
  /\ cfg.createSchema
       => (cfg.timeSeries = <<>> /\ cfg.varList = EmptyVarList
           /\ cfg.condition.kind = "never" /\ cfg.variableLoopTime = "loopTime")
  /\ tscConfig' = cfg
  /\ IF cfg.createSchema
       THEN /\ tscPhase' = "schema"
            /\ tsc' = [NoTsc EXCEPT !.nameTime = cfg.variableLoopTime]
       ELSE /\ tscPhase' = "constructed"
            /\ tsc' = [timeSeries   |-> cfg.timeSeries,
                       conditionPtr |-> cfg.condition,
                       nameTime     |-> cfg.variableLoopTime,
                       varList      |-> IF cfg.variableLoopTime # ""
                                          THEN addVariable(cfg.variableLoopTime, cfg.varList)
                                          ELSE cfg.varList]
  /\ UNCHANGED <<tscCall, tscThreads>>
  /\ UNCHANGED <<erVars, tdVars, ifVars, mainVars>>

\* variant: the condition evaluated before the variable is set, so that it
\* sees the time of the element before
RECURSIVE KeepTimesStale(_, _, _, _, _, _, _)
KeepTimesStale(times, i, nameTime, c, varList, timesToKeep, evaluated) ==
  IF i > Len(times)
    THEN [status |-> "ok", error |-> "", kept |-> timesToKeep, varList |-> varList,
          evaluated |-> evaluated]
    ELSE LET set  == IF nameTime # "" THEN setValue(varList, nameTime, mjd(times[i]))
                                      ELSE varList
             r    == condition(c, varList)
             seen == Append(evaluated, [t |-> times[i], varList |-> varList])
         IN  IF ~r.ok
               THEN [status |-> "error", error |-> ErrUnknownVariable, kept |-> <<>>,
                     varList |-> varList, evaluated |-> seen]
               ELSE KeepTimesStale(times, i + 1, nameTime, c, set,
                                   IF r.met THEN Append(timesToKeep, times[i])
                                            ELSE timesToKeep,
                                   seen)

\* lines 80-86: the loop from element i of `times' on.  `evaluated' lists,
\* for every evaluation of the condition, the time and the variable list the
\* condition saw.
RECURSIVE KeepTimes(_, _, _, _, _, _, _)
KeepTimes(times, i, nameTime, c, varList, timesToKeep, evaluated) ==
  IF i > Len(times)
    THEN [status |-> "ok", error |-> "", kept |-> timesToKeep, varList |-> varList,
          evaluated |-> evaluated]
    ELSE LET set  == IF nameTime # "" THEN setValue(varList, nameTime, mjd(times[i]))
                                      ELSE varList
             r    == condition(c, set)
             seen == Append(evaluated, [t |-> times[i], varList |-> set])
         IN  IF ~r.ok
               THEN [status |-> "error", error |-> ErrUnknownVariable, kept |-> <<>>,
                     varList |-> set, evaluated |-> seen]
               ELSE KeepTimes(times, i + 1, nameTime, c, set,
                              IF r.met THEN Append(timesToKeep, times[i]) ELSE timesToKeep,
                              seen)

\* TimeSeriesConditional::times, lines 73-94
TscTimes ==
  /\ tscPhase = "constructed"
  /\ LET r == KeepTimes(tsc.timeSeries, 1, tsc.nameTime, tsc.conditionPtr, tsc.varList,
                        <<>>, <<>>)
     IN  /\ tscCall' = [status |-> r.status, error |-> r.error, kept |-> r.kept,
                        evaluated |-> r.evaluated]
         /\ tsc' = [tsc EXCEPT !.varList = r.varList]
  /\ UNCHANGED <<tscPhase, tscConfig, tscThreads>>
  /\ UNCHANGED <<erVars, tdVars, ifVars, mainVars>>

\* Two callers of times() on the same object.  The code takes no lock and
\* varList is a mutable member, so the steps of the two calls interleave:
\* a step is what a call does between two accesses of varList, the write of
\* line 83 or the evaluation of line 84.  `overlapped' notes for the
\* properties whether the call ran while the other call was under way.
Callers == {1, 2}

Other(c) == CHOOSE d \in Callers : d # c

NoCaller == [pc |-> "idle", i |-> 0, timesToKeep |-> <<>>, evaluated |-> <<>>,
             overlapped |-> FALSE]

\* the caller is inside the loop of lines 80-86
Active(c) == tscThreads[c].pc \in {"set", "evaluate"}

\* lines 77-78: the call starts
CallerBegin(c) ==
  /\ tscPhase = "constructed"
  /\ tscThreads[c].pc = "idle"
  /\ tscThreads' =
       [d \in Callers |->
          IF d = c
            THEN [NoCaller EXCEPT !.pc = IF tsc.timeSeries = <<>> THEN "done" ELSE "set",
                                  !.i = 1,
                                  !.overlapped = Active(Other(c))]
            ELSE [tscThreads[d] EXCEPT !.overlapped = @ \/ Active(d)]]
  /\ UNCHANGED <<tscPhase, tscConfig, tsc, tscCall>>
  /\ UNCHANGED <<erVars, tdVars, ifVars, mainVars>>

\* variant: line 83 missing, the loop-time variable never written
CallerSetTimeSkipped(c) ==
  /\ tscThreads[c].pc = "set"
  /\ tscThreads' = [tscThreads EXCEPT ![c].pc = "evaluate"]
  /\ UNCHANGED <<tscPhase, tscConfig, tsc, tscCall>>
  /\ UNCHANGED <<erVars, tdVars, ifVars, mainVars>>

\* lines 82-83: the write of the loop-time variable of the shared list
CallerSetTime(c) ==
  /\ tscThreads[c].pc = "set"
  /\ tsc' = IF tsc.nameTime # ""
              THEN [tsc EXCEPT !.varList =
                      setValue(@, tsc.nameTime, mjd(tsc.timeSeries[tscThreads[c].i]))]
              ELSE tsc
  /\ tscThreads' = [tscThreads EXCEPT ![c].pc = "evaluate"]
  /\ UNCHANGED <<tscPhase, tscConfig, tscCall>>
  /\ UNCHANGED <<erVars, tdVars, ifVars, mainVars>>

\* lines 84-85 and the step of the loop: the condition is evaluated on the
\* shared list as it is now; after the last element the call returns
\* (line 88), and an exception of the condition ends it (lines 90-93)
CallerEvaluate(c) ==
  /\ tscThreads[c].pc = "evaluate"
  /\ LET me   == tscThreads[c]
         t    == tsc.timeSeries[me.i]
         r    == condition(tsc.conditionPtr, tsc.varList)
         seen == Append(me.evaluated, [t |-> t, varList |-> tsc.varList])
     IN  tscThreads' =
           [tscThreads EXCEPT ![c] =
              IF ~r.ok
                THEN [me EXCEPT !.pc = "failed", !.timesToKeep = <<>>, !.evaluated = seen]
                ELSE [me EXCEPT !.pc = IF me.i = Len(tsc.timeSeries) THEN "done" ELSE "set",
                                !.i = me.i + 1,
                                !.timesToKeep = IF r.met THEN Append(@, t) ELSE @,
                                !.evaluated = seen]]
  /\ UNCHANGED <<tscPhase, tscConfig, tsc, tscCall>>
  /\ UNCHANGED <<erVars, tdVars, ifVars, mainVars>>

\* the objects the two callers share: built from a series in ascending
\* order, outside the schema pass
SharedConfigs ==
  {cfg \in TscConfigs : ~cfg.createSchema /\ StrictlyIncreasing(cfg.timeSeries)}

CallersNext ==
  \/ tscPhase = "start" /\ \E cfg \in SharedConfigs : TscConstruct(cfg)
  \/ \E c \in Callers : CallerBegin(c)
  \/ \E c \in Callers : CallerSetTime(c)
  \/ \E c \in Callers : CallerEvaluate(c)

TscInit ==
  /\ tscPhase = "start"
  /\ tscConfig = [timeSeries |-> <<>>, variableLoopTime |-> "", 
                  condition |-> [kind |-> "never", var |-> ""],
                  varList |-> EmptyVarList, createSchema |-> FALSE]
  /\ tsc = NoTsc
  /\ tscCall = NoTscCall
  /\ tscThreads = [c \in Callers |-> NoCaller]

TscNext ==
  \/ tscPhase = "start" /\ \E cfg \in TscConfigs : TscConstruct(cfg)
  \/ tscPhase = "constructed" /\ TscTimes

-----------------------------------------------------------------------------
(* IfPrograms.  The nested programs are named by what they do when run:     *)
(* "a" and "b" return, "fail" throws.  The condition is named by the        *)
(* outcome of its evaluation on the variables of the configuration.         *)

ProgramNames      == {"a", "b", "fail"}
ConditionOutcomes == {"true", "false", "error"}
ElementNames      == {"program", "programme"}

ErrCondition == "condition: evaluation failed"
ErrProgram   == "program failed"

IfConfigs ==
  [element : ElementNames, condition : ConditionOutcomes,
   programs : SeqsUpTo(ProgramNames, MaxPrograms), createSchema : BOOLEAN]

NoIfLog == [evaluations |-> 0, ran |-> <<>>, removals |-> 0, unread |-> <<>>,
            declared |-> FALSE, error |-> ""]

\* programRun(config): reads the program elements one after the other and
\* runs each; a program that throws ends the run.  From program i on.
RECURSIVE programRun(_, _, _)
programRun(programs, i, ran) ==
  IF i > Len(programs)
    THEN [ok |-> TRUE, ran |-> ran, unread |-> <<>>]
    ELSE IF programs[i] = "fail"
      THEN [ok |-> FALSE, ran |-> Append(ran, programs[i]),
            unread |-> SubSeq(programs, i + 1, Len(programs))]
      ELSE programRun(programs, i + 1, Append(ran, programs[i]))

\* programRemove(config): drops the program elements not read so far
programRemove(unread) == <<>>

\* variant: lines 55-63 with the branches exchanged
IfBranchInverted(outcome) == outcome = "false"

\* line 55: if(conditionPtr->condition(config.getVarList()))
IfBranch(outcome) == outcome = "true"

\* IfPrograms::run, lines 38-71.  Line 44 makes an element of the deprecated
\* name programme read as program.
IfProgramsRun(cfg) ==
  /\ ifPhase = "start"
  /\ cfg.createSchema => (cfg.programs = <<>> /\ cfg.condition = "false"
                          /\ cfg.element = "program")
  /\ ifConfig' = cfg
  /\ IF cfg.createSchema
       THEN /\ ifPhase' = "schema"
            /\ ifLog' = [NoIfLog EXCEPT !.declared = TRUE]
       ELSE IF cfg.condition = "error"
       THEN /\ ifPhase' = "failed"
            /\ ifLog' = [NoIfLog EXCEPT !.evaluations = 1, !.unread = cfg.programs,
                                        !.error = ErrCondition]
       ELSE IF IfBranch(cfg.condition)
       THEN LET r == programRun(cfg.programs, 1, <<>>)
            IN  IF ~r.ok
                  THEN /\ ifPhase' = "failed"
                       /\ ifLog' = [NoIfLog EXCEPT !.evaluations = 1, !.ran = r.ran,
                                                   !.unread = r.unread,
                                                   !.error = ErrProgram]
                  ELSE /\ ifPhase' = "done"
                       /\ ifLog' = [NoIfLog EXCEPT !.evaluations = 1, !.ran = r.ran,
                                                   !.removals = 1,
                                                   !.unread = programRemove(r.unread)]
       ELSE /\ ifPhase' = "done"
            /\ ifLog' = [NoIfLog EXCEPT !.evaluations = 1, !.removals = 1,
                                        !.unread = programRemove(cfg.programs)]
  /\ UNCHANGED <<erVars, tdVars, tscVars, mainVars>>

IfInit ==
  /\ ifPhase = "start"
  /\ ifConfig = [element |-> "program", condition |-> "false", programs |-> <<>>,
                 createSchema |-> FALSE]
  /\ ifLog = NoIfLog

IfNext == ifPhase = "start" /\ \E cfg \in IfConfigs : IfProgramsRun(cfg)

-----------------------------------------------------------------------------
(* groops main: the command line, the log file and the scripts.  A file     *)
(* name is its directory parts, its base name and, for a time-stamped name,  *)
(* the time of the stamp.                                                    *)

FileName(dir, base) == [dir |-> dir, base |-> base, stamp |-> <<>>]

EmptyFileName == FileName(<<>>, "")

\* FileName::stripDirectory
stripDirectory(name) == [name EXCEPT !.dir = <<>>]

\* FileName::append: the name inside the directory `name'
append(name, inner) == [inner EXCEPT !.dir = name.dir \o <<name.base>> \o inner.dir]

\* configFileName.stripDirectory().str()+"_"+System::now().dateTimeStr()+".log"
Stamped(name, time) == [stripDirectory(name) EXCEPT !.stamp = <<time>>]

\* Log: the file the messages go to, and the calls of setLogFile so far
NoLogging == [file |-> EmptyFileName, calls |-> <<>>]

\* logging.setLogFile(name)
setLogFile(log, name) == [file |-> name, calls |-> Append(log.calls, name)]

\* the command lines of the model: --log absent, naming a file, or naming a
\* path that can be a directory; up to MaxScripts config files
LogFileNames    == {EmptyFileName, FileName(<<>>, "run.log"), FileName(<<"out">>, "logs")}
ConfigFileNames == {FileName(<<>>, "a.xml"), FileName(<<"scripts">>, "a.xml"),
                    FileName(<<>>, "b.xml")}
CommandLines ==
  [logFileName : LogFileNames, configFileNames : SeqsUpTo(ConfigFileNames, MaxScripts)]

NoCommandLine == [logFileName |-> EmptyFileName, configFileNames |-> <<>>]

\* the tests of System::isDirectory(logFileName) so far, and the scripts run
NoMainTrace == [tests |-> <<>>, runs |-> <<>>]

\* System::isDirectory(logFileName): the empty name is no directory
CanBeDirectory(name, isDir) == isDir => name # EmptyFileName

\* variant: line 180 without the test of line 179
StartLoggingAlways(log, logFileName, isDir) == setLogFile(log, logFileName)

\* lines 179-180
StartLogging(log, logFileName, isDir) ==
  IF ~isDir THEN setLogFile(log, logFileName) ELSE log

\* lines 235-240: the redirection at the head of the loop body
RedirectLogging(log, logFileName, configFileName, isDir, time) ==
  IF isDir
    THEN setLogFile(log, append(logFileName, Stamped(configFileName, time)))
    ELSE log

\* lines 118-182: the command line is read and logging starts; `isDir' is
\* what the file system holds at the path of --log
MainStart(args, isDir) ==
  /\ mainPhase = "start"
  /\ CanBeDirectory(args.logFileName, isDir)
  /\ mainArgs' = args
  /\ logIsDirectory' = isDir
  /\ logging' = StartLogging(logging, args.logFileName, isDir)
  /\ mainTrace' = [mainTrace EXCEPT !.tests = Append(@, isDir)]
  /\ mainPhase' = "started"
  /\ UNCHANGED now
  /\ UNCHANGED <<erVars, tdVars, tscVars, ifVars>>

\* lines 230-247, one pass of the loop: the redirection, then the script's
\* programs, which end well or with an error that ends main (lines 257-263).
\* While the script runs the clock may advance and the script may create or
\* remove the directory at the path of --log.
MainScript(outcome, isDirAfter, tick) ==
  /\ mainPhase = "started"
  /\ Len(mainTrace.runs) < Len(mainArgs.configFileNames)
  /\ CanBeDirectory(mainArgs.logFileName, isDirAfter)
  /\ LET configFileName == mainArgs.configFileNames[Len(mainTrace.runs) + 1]
         log == RedirectLogging(logging, mainArgs.logFileName, configFileName,
                                logIsDirectory, now)
     IN  /\ logging' = log
         /\ mainTrace' = [tests |-> Append(mainTrace.tests, logIsDirectory),
                          runs  |-> Append(mainTrace.runs,
                                           [config |-> configFileName, logFile |-> log.file,
                                            time |-> now, outcome |-> outcome])]
  /\ mainPhase' = IF outcome = "error" THEN "failed" ELSE "started"
  /\ logIsDirectory' = isDirAfter
  /\ now' = now + tick
  /\ UNCHANGED mainArgs
  /\ UNCHANGED <<erVars, tdVars, tscVars, ifVars>>

\* lines 251-255 and 271-272: all scripts have run
MainFinish ==
  /\ mainPhase = "started"
  /\ Len(mainTrace.runs) = Len(mainArgs.configFileNames)
  /\ mainPhase' = "finished"
  /\ UNCHANGED <<mainArgs, logIsDirectory, logging, mainTrace, now>>
  /\ UNCHANGED <<erVars, tdVars, tscVars, ifVars>>

MainInit ==
  /\ mainPhase = "start"
  /\ mainArgs = NoCommandLine
  /\ logIsDirectory = FALSE
  /\ logging = NoLogging
  /\ mainTrace = NoMainTrace
  /\ now = 0

MainNext ==
  \/ mainPhase = "start" /\ \E args \in CommandLines, isDir \in BOOLEAN : MainStart(args, isDir)
  \/ mainPhase = "started" /\ \E outcome \in {"ok", "error"}, isDirAfter \in BOOLEAN,
                                 tick \in {0, 1} : MainScript(outcome, isDirAfter, tick)
  \/ MainFinish

-----------------------------------------------------------------------------
(* Specifications *)

Init == ErInit /\ TdInit /\ TscInit /\ IfInit /\ MainInit

Next == ErNext \/ TdNext \/ TscNext \/ CallersNext \/ IfNext \/ MainNext

\* the whole program
Spec == Init /\ [][Next]_vars

\* the Earth rotation interpolator alone
SpecEarthRotation == Init /\ [][ErNext]_vars

\* the tide aggregator alone, in a build with the ERFA library
InitWithErfa == Init /\ ~nolibErfa

SpecTides == InitWithErfa /\ [][TdNext]_vars

\* the conditional time series alone
SpecTimeSeries == InitWithErfa /\ [][TscNext]_vars

\* the program IfPrograms alone
SpecIfPrograms == InitWithErfa /\ [][IfNext]_vars

\* two callers of times() on one conditional time series
SpecCallers == InitWithErfa /\ [][CallersNext]_vars

\* groops main alone
SpecMain == InitWithErfa /\ [][MainNext]_vars

\* The interpolator and the aggregator queried side by side: the calls of
\* earthOrientationParameter and the aggregate calls interleave in any
\* order.  The interpolator is built with no file or, with the truncated
\* nutation model, from the table of the days 0..MaxRows-1, and asked for
\* the seconds up to the one after the leap second; the aggregator is built
\* from at most one tide.
QueriedEopConfigs ==
  [eopName : {""}, days : {<<>>}, a : {0}, b : {0},
   truncatedNutation : {FALSE}, createSchema : {FALSE}]
  \cup [eopName : {"eop.txt"}, days : {[i \in 1..MaxRows |-> i - 1]}, a : {1}, b : {1},
        truncatedNutation : {TRUE}, createSchema : {FALSE}]

QueriedTidesConfigs ==
  [entries : SeqsUpTo({TideTypes[i] : i \in 1..Len(TideTypes)}, 1), createSchema : {FALSE}]

QueriesNext ==
  \/ erPhase = "start" /\ \E cfg \in QueriedEopConfigs : Construct(cfg)
  \/ erPhase = "constructed" /\ \E timeGPS \in 0..(LeapGPS + 1) :
                                  EarthOrientationParameter(timeGPS)
  \/ tdPhase = "start" /\ \E cfg \in QueriedTidesConfigs : TidesConstruct(cfg)
  \/ TidesReady /\ \E e \in Epochs, point \in Points : TidesPotential(e, point)
  \/ TidesReady /\ \E e \in Epochs, point \in Points : TidesRadialGradient(e, point)
  \/ TidesReady /\ \E e \in Epochs, point \in Points : TidesAcceleration(e, point)
  \/ TidesReady /\ \E e \in Epochs, point \in Points : TidesGradient(e, point)
  \/ TidesReady /\ \E e \in Epochs, point \in Points : TidesDeformation(e, point)
  \/ TidesReady /\ \E epochs \in EpochLists, points \in PointLists, init \in {0} :
                     TidesDeformationBatch(epochs, points, init)
  \/ TidesReady /\ \E args \in {a \in HarmonicsArgs : a.GM = DefaultGM} : TidesSphericalHarmonics(args)

SpecQueries == InitWithErfa /\ [][QueriesNext]_vars

-----------------------------------------------------------------------------
(* Properties of the Earth rotation interpolator *)

\* the UTC instant of the last call of earthOrientationParameter
CallUTC == timeGPS2UTC(eopCall.timeGPS)

\* C1: a call of earthOrientationParameter whose UTC instant lies strictly
\* before the first or strictly after the last time stamp of the loaded EOP
\* series fails with the out-of-range error "No EOPs available"; it returns
\* no orientation value: sp, X, Y and S are never assigned and xp, yp,
\* deltaUT and LOD hold only the zeros of line 79.
C1_OutOfRangeFails ==
  (/\ eopCall.status # "none"
   /\ ~nolibErfa
   /\ Len(er.times) > 0
   /\ (CallUTC < er.times[1] \/ CallUTC > er.times[Len(er.times)]))
  => /\ eopCall.status = "error"
     /\ eopCall.error = ErrNoEop
     /\ eopCall.set \cap {"sp", "X", "Y", "S"} = {}
     /\ eopCall.out = ZeroOut

\* a call later than the last time stamp of a series long enough to be
\* interpolated has failed
C1_Witness ==
  /\ eopCall.status = "error"
  /\ Len(er.times) = PolynomialDegree + 1
  /\ CallUTC > er.times[Len(er.times)]

\* C2 as claimed: compiled without ERFA, constructing the interpolator with no
\* EOP file succeeds.
C2_ConstructionSucceedsWithoutFile ==
  (nolibErfa /\ erPhase # "start" /\ eopFile.eopName = "") => erPhase = "constructed"

\* C2, amended: compiled without ERFA, constructing the interpolator from a
\* configuration fails with the missing-dependency error whether or not an
\* EOP file is given; only the pass that creates the schema, which returns
\* at line 34, yields an object.
C2_ConstructionFailsWithoutErfa ==
  (nolibErfa /\ erPhase # "start")
  => IF eopFile.createSchema
       THEN erPhase = "constructed"
       ELSE erPhase = "failed" /\ erError = ErrNoErfa

\* compiled without ERFA, a construction with no EOP file has failed
C2_Witness ==
  /\ nolibErfa
  /\ erPhase = "failed"
  /\ eopFile.eopName = ""
  /\ ~eopFile.createSchema

\* C3: compiled without ERFA, every call of earthOrientationParameter fails
\* with the missing-dependency error "Compiled without ERFA library", at every
\* query time, and assigns none of its output parameters.
C3_EveryCallFailsWithoutErfa ==
  (nolibErfa /\ eopCall.status # "none")
  => /\ eopCall.status = "error"
     /\ eopCall.error = ErrNoErfa
     /\ eopCall.set = {}

\* compiled without ERFA, two calls at successive seconds have both failed
C3_Witness ==
  /\ nolibErfa
  /\ eopCall.status = "error"
  /\ eopPrev.status = "error"
  /\ eopCall.timeGPS = eopPrev.timeGPS + 1

\* the last two calls succeeded on a loaded series, one at the last second
\* before the leap second and one at the first second after it
AcrossLeap ==
  /\ Len(er.EOP) > 0
  /\ eopPrev.status = "ok"
  /\ eopCall.status = "ok"
  /\ eopPrev.timeGPS = LeapGPS - 1
  /\ eopCall.timeGPS = LeapGPS

\* the leap second: the step of GPS-UTC at the leap-second instant
LeapStep == (timeUTC2GPS(LeapUTC) - LeapUTC) - (timeUTC2GPS(LeapUTC - 1) - (LeapUTC - 1))

\* C7 as claimed: within EOP coverage the values of deltaUT returned just
\* before and just after the leap-second instant do not differ by a
\* leap-second jump.
C7_ReturnedDeltaUTContinuous ==
  AcrossLeap => RSub(eopCall.out.deltaUT, eopPrev.out.deltaUT) # RInt(LeapStep)

\* C7, amended: the UT1 series the interpolator holds and interpolates is
\* UT1-GPS, free of the leap-second step of the file's UT1-UTC; the deltaUT
\* returned is the interpolated value plus GPS-UTC at the query time, so the
\* values returned just before and just after the leap-second instant differ
\* by exactly the leap second.
C7_LeapSecondStep ==
  /\ (erPhase = "constructed" /\ Len(er.EOP) > 0)
       => \A i \in 1..Len(er.EOP) :
            er.EOP[i][3] = RInt(eopFile.a + eopFile.b * eopFile.days[i])
  /\ AcrossLeap => RSub(eopCall.out.deltaUT, eopPrev.out.deltaUT) = RInt(LeapStep)

\* two successful calls on a series that spans the leap second, at the seconds
\* before and after it
C7_Witness ==
  /\ AcrossLeap
  /\ er.times[1] < LeapUTC
  /\ er.times[Len(er.times)] > LeapUTC

\* C10: loading an EOP table whose time stamps are not strictly increasing
\* fails in the constructor with the malformed-input error, so every
\* constructed interpolator holds a strictly increasing time series.
C10_UnsortedTableRejected ==
  /\ (/\ erPhase # "start"
      /\ ~nolibErfa
      /\ eopFile.eopName # ""
      /\ ~StrictlyIncreasing(eopFile.days))
     => (erPhase = "failed" /\ erError = ErrMalformed)
  /\ erPhase = "constructed" => StrictlyIncreasing(er.times)

\* the construction from a table with a time stamp out of order has failed
C10_Witness ==
  /\ erPhase = "failed"
  /\ erError = ErrMalformed
  /\ \E i \in 1..(Len(eopFile.days) - 1) : eopFile.days[i] > eopFile.days[i + 1]

-----------------------------------------------------------------------------
(* Properties of the tide aggregator *)

\* the component operation behind an aggregate operation
ComponentOp(name) ==
  CASE name = "acceleration" -> "gravity"
    [] name = "gradient"     -> "gravityGradient"
    [] OTHER                 -> name

\* C4: potential, radialGradient and acceleration are linear in the component
\* list: for every way of writing the list as the concatenation of two lists
\* A and B, the aggregate at the same time, point and rotation equals the
\* aggregate over A plus the aggregate over B.
C4_AggregateIsLinear ==
  (tdCall.op \in {"potential", "radialGradient", "acceleration"} /\ tdCall.status = "ok")
  => \A n \in 0..Len(tides) :
       LET A == Aggregate(SubSeq(tides, 1, n), ComponentOp(tdCall.op),
                          tdCall.e, tdCall.point)
           B == Aggregate(SubSeq(tides, n + 1, Len(tides)), ComponentOp(tdCall.op),
                          tdCall.e, tdCall.point)
       IN  /\ A.status = "ok"
           /\ B.status = "ok"
           /\ tdCall.value = ValueAdd(A.value, B.value)

\* the acceleration of two different components has been summed, and neither
\* of the two alone gives the sum
C4_Witness ==
  /\ tdCall.op = "acceleration"
  /\ tdCall.status = "ok"
  /\ Len(tides) = 2
  /\ tides[1] # tides[2]
  /\ tdCall.value # Aggregate(<<tides[1]>>, "gravity", tdCall.e, tdCall.point).value
  /\ tdCall.value # Aggregate(<<tides[2]>>, "gravity", tdCall.e, tdCall.point).value

\* C5: an aggregator without components returns the potential 0, the zero
\* acceleration vector and the default-constructed spherical harmonics field,
\* calls no component and raises no error.
C5_EmptyAggregator ==
  (tdPhase = "constructed" /\ tides = <<>> /\ tdCall.op # "none")
  => /\ tdCall.status = "ok"
     /\ tdCall.error = ""
     /\ tdCall.called = 0
     /\ tdCall.calls = <<>>
     /\ tdCall.evals = 0
     /\ tdCall.op = "potential" => tdCall.value = <<0>>
     /\ tdCall.op = "acceleration" => tdCall.value = <<0, 0, 0>>
     /\ tdCall.op = "sphericalHarmonics"
          => tdCall.value = [GM |-> DefaultGM, R |-> DefaultR, maxDegree |-> 0, x |-> <<0>>]

\* the spherical harmonics of an aggregator without components have been
\* asked for, with arguments other than the defaults
C5_Witness ==
  /\ tdPhase = "constructed"
  /\ tides = <<>>
  /\ tdCall.op = "sphericalHarmonics"
  /\ tdCall.args.GM # DefaultGM
  /\ tdCall.args.maxDegree # InfinityDegree

C8_OneComponentPerEntry ==
  (tdPhase = "constructed" /\ ~tdConfig.createSchema)
  => /\ Len(tides) = Len(tdConfig.entries)
     /\ \A i \in 1..Len(tides) : tides[i] = RenamedType(tdConfig.entries[i])
     /\ (tdCall.status = "ok" /\ tdCall.op # "none") => tdCall.called = Len(tides)

\* the same type has been entered twice, once by its deprecated name, and the
\* potential of the two components has been summed
C8_Witness ==
  /\ tdPhase = "constructed"
  /\ tdConfig.entries = <<"moonTide", "solidMoonTide">>
  /\ tides = <<"solidMoonTide", "solidMoonTide">>
  /\ tdCall.op = "potential"
  /\ tdCall.status = "ok"
  /\ tdCall.called = 2

\* coefficient j of a field; a field of lower degree counts as zero there
CoefficientAt(harm, j) == IF j <= Len(harm.x) THEN harm.x[j] ELSE 0

\* the sum of coefficient j over the fields of the components of a list
RECURSIVE CoefficientSum(_, _, _)
CoefficientSum(list, args, j) ==
  IF list = <<>>
    THEN 0
    ELSE CoefficientAt(ComponentHarmonics(Head(list), args.e, args.maxDegree,
                                          args.minDegree, args.GM, args.R).value, j)
         + CoefficientSum(Tail(list), args, j)

\* C9: sphericalHarmonics of a non-empty aggregator queries its components in
\* order, each once and with the time, rotation, maxDegree, minDegree, GM and
\* R of the caller, and when it returns the field is the coefficient-wise sum
\* of the fields of all components.
C9_HarmonicsIsSumOfComponents ==
  (tdCall.op = "sphericalHarmonics" /\ tides # <<>>)
  => /\ \A i \in 1..Len(tdCall.calls) :
          tdCall.calls[i] = [component |-> i, args |-> tdCall.args]
     /\ tdCall.status = "ok"
          => /\ Len(tdCall.calls) = Len(tides)
             /\ \A j \in 1..Len(tdCall.value.x) :
                  tdCall.value.x[j] = CoefficientSum(tides, tdCall.args, j)
             /\ \A i \in 1..Len(tides) :
                  LET h == ComponentHarmonics(tides[i], tdCall.args.e, tdCall.args.maxDegree,
                                              tdCall.args.minDegree, tdCall.args.GM,
                                              tdCall.args.R)
                  IN  h.ok /\ Len(h.value.x) <= Len(tdCall.value.x)

\* the fields of two components of different degree have been summed for
\* arguments other than the defaults, to a field that is not zero
C9_Witness ==
  /\ tdCall.op = "sphericalHarmonics"
  /\ tdCall.status = "ok"
  /\ Len(tides) = 2
  /\ ClassMaxDegree(tides[1]) # ClassMaxDegree(tides[2])
  /\ tdCall.args.GM # DefaultGM
  /\ tdCall.args.maxDegree = InfinityDegree
  /\ \E j \in 1..Len(tdCall.value.x) : tdCall.value.x[j] # 0


\* what component i of the aggregator answers to the operation of the last
\* call, asked alone with the arguments of that call
ComponentAnswer(i) ==
  CASE tdCall.op \in {"potential", "radialGradient", "acceleration", "gradient"}
         -> ComponentValue(tides[i], ComponentOp(tdCall.op), tdCall.e, tdCall.point)
    [] tdCall.op = "deformation"
         -> TidesBaseDeformation(tides[i], tdCall.e, tdCall.point,
                                 Gravity(tdCall.point), LoveH, LoveL)
    [] tdCall.op = "deformationBatch"
         -> TidesBaseDeformationBatch(tides[i], tdCall.epochs, tdCall.points,
                                      GravityOf(tdCall.points), LoveH, LoveL,
                                      tdCall.dispBefore)
    [] tdCall.op = "sphericalHarmonics"
         -> ComponentHarmonics(tides[i], tdCall.args.e, tdCall.args.maxDegree,
                               tdCall.args.minDegree, tdCall.args.GM, tdCall.args.R)

\* the components that raise an error on the arguments of the last call
FailingComponents == {i \in 1..Len(tides) : ~ComponentAnswer(i).ok}

\* C11: if a component raises an error during an aggregate operation
\* (potential, radialGradient, acceleration, gradient, deformation,
\* sphericalHarmonics), the aggregate call fails with the error of the first
\* such component and calls no component after it; the call never returns
\* normally with the sum of the other components or with a default value.
\* A call returns normally only if no component raises an error.
C11_ComponentErrorFailsAggregate ==
  (tdPhase = "constructed" /\ tdCall.op # "none")
  => IF FailingComponents = {}
       THEN tdCall.status = "ok" /\ tdCall.called = Len(tides)
       ELSE LET first == CHOOSE i \in FailingComponents :
                           \A j \in FailingComponents : i <= j
            IN  /\ tdCall.status = "error"
                /\ tdCall.error = ComponentAnswer(first).error
                /\ tdCall.error # ""
                /\ tdCall.called = first

\* the potential has been asked of two components of which the first answers
\* and the second raises an error
C11_Witness ==
  /\ tdCall.op = "potential"
  /\ Len(tides) = 2
  /\ FailingComponents = {2}
  /\ ComponentAnswer(1).value # <<0>>
  /\ tdCall.status = "error"


\* an EOP file has been loaded into the interpolator
Loaded == erPhase = "constructed" /\ Len(er.EOP) > 0

\* row i of the EOP file as it was read: mjd, xp, yp, UT1-UTC, LOD, dX, dY
FileRow(i) == RawRow(eopFile.days[i], eopFile.a, eopFile.b)

\* the last call succeeded on a loaded series at the UTC instant of sample i
AtSample(i) == Loaded /\ eopCall.status = "ok" /\ CallUTC = er.times[i]

\* C13: the columns xp, yp, dX, dY of the EOP file, given in arc seconds, are
\* held multiplied by DEG2RAD/3600 exactly once; the columns UT1 and LOD are
\* held unscaled (UT1 only shifted by GPS-UTC).  The pole coordinates a call
\* returns are in radians: at the instant of a sample they are the file's arc
\* seconds times DEG2RAD/3600 plus the model corrections, while the returned
\* LOD is the file's LOD plus its correction.
C13_ArcSecondsScaledOnce ==
  Loaded =>
    /\ Len(er.EOP) = Len(eopFile.days)
    /\ \A i \in 1..Len(er.EOP) :
         /\ er.EOP[i][1] = RMul(RInt(FileRow(i)[2]), ArcsecToRad)
         /\ er.EOP[i][2] = RMul(RInt(FileRow(i)[3]), ArcsecToRad)
         /\ RAdd(er.EOP[i][3], RInt(timeUTC2GPS(er.times[i]) - er.times[i]))
              = RInt(FileRow(i)[4])
         /\ er.EOP[i][4] = RInt(FileRow(i)[5])
         /\ er.EOP[i][5] = RMul(RInt(FileRow(i)[6]), ArcsecToRad)
         /\ er.EOP[i][6] = RMul(RInt(FileRow(i)[7]), ArcsecToRad)
         /\ AtSample(i) =>
              LET mjdUTC == CallUTC
                  tt     == timeGPS2TT(eopCall.timeGPS)
                  nut    == IF er.useTruncated THEN eraXys00b(tt) ELSE eraXy06(tt)
              IN  /\ eopCall.out.xp
                       = RAdd(RMul(RInt(FileRow(i)[2]), ArcsecToRad),
                              RMul(RInt(ortho_eop(mjdUTC)[1] + pmsdnut2(mjdUTC)[1]),
                                   RMul(Micro, ArcsecToRad)))
                  /\ eopCall.out.yp
                       = RAdd(RMul(RInt(FileRow(i)[3]), ArcsecToRad),
                              RMul(RInt(ortho_eop(mjdUTC)[2] + pmsdnut2(mjdUTC)[2]),
                                   RMul(Micro, ArcsecToRad)))
                  /\ eopCall.out.LOD
                       = RAdd(RInt(FileRow(i)[5]), RMul(RInt(utlibr(mjdUTC)[2]), Micro))
                  /\ eopCall.out.X
                       = RAdd(nut[1], RMul(RInt(FileRow(i)[6]), ArcsecToRad))
                  /\ eopCall.out.Y
                       = RAdd(nut[2], RMul(RInt(FileRow(i)[7]), ArcsecToRad))

\* a call at the instant of an inner sample of a series has succeeded, and
\* every scaled column of that sample differs from its value in arc seconds
C13_Witness ==
  \E i \in 2..(Len(er.EOP) - 1) :
    /\ AtSample(i)
    /\ FileRow(i)[2] # 0 /\ FileRow(i)[3] # 0
    /\ FileRow(i)[5] # 0 /\ FileRow(i)[6] # 0 /\ FileRow(i)[7] # 0


\* the short-period corrections lines 103 and 112 add to deltaUT at the
\* instant of the last call
DeltaUTCorrections ==
  RMul(RInt(ortho_eop(CallUTC)[3] + utlibr(CallUTC)[1]), Micro)

InRangeCall ==
  Loaded /\ eopCall.status # "none" /\ ~OutOfRange(CallUTC, er.times)

\* the last call asked for the instant halfway between the samples i and
\* i+1, GPS-UTC being the same at both samples and at the query
Halfway(i) ==
  /\ 2 * CallUTC = er.times[i] + er.times[i + 1]
  /\ timeUTC2GPS(er.times[i]) - er.times[i] = eopCall.timeGPS - CallUTC
  /\ timeUTC2GPS(er.times[i + 1]) - er.times[i + 1] = eopCall.timeGPS - CallUTC

\* the table has three rows a day apart
ThreeDailyRows ==
  /\ Len(er.times) = 3
  /\ er.times[2] = er.times[1] + mjd2time(1)
  /\ er.times[3] = er.times[2] + mjd2time(1)

\* C14 as claimed: on a table of three rows a day apart a call for the
\* instant t0 + 0.5 day succeeds and returns, before the short-period
\* corrections, the UT1-UTC halfway between the first two rows.
C14_ThreeRowsInterpolate ==
  (InRangeCall /\ ThreeDailyRows /\ Halfway(1))
  => /\ eopCall.status = "ok"
     /\ RMul(RInt(2), RSub(eopCall.out.deltaUT, DeltaUTCorrections))
          = RInt(FileRow(1)[4] + FileRow(2)[4])

\* C14, amended: the interpolator is bound to degree 3, so a call inside the
\* series needs four samples: on a table of fewer rows it fails with the
\* error of the polynomial model, on a table of four or more rows it
\* succeeds, and halfway between two samples of a UT1-UTC column that is
\* linear in time it returns, before the short-period corrections, the mean
\* of the two.
C14_NeedsFourSamples ==
  InRangeCall
  => IF Len(er.times) < PolynomialDegree + 1
       THEN eopCall.status = "error" /\ eopCall.error = ErrPoints
       ELSE /\ eopCall.status = "ok"
            /\ \A i \in 1..(Len(er.times) - 1) :
                 Halfway(i)
                 => RMul(RInt(2), RSub(eopCall.out.deltaUT, DeltaUTCorrections))
                      = RInt(FileRow(i)[4] + FileRow(i + 1)[4])

\* on a table of three rows a day apart, with a UT1-UTC column that changes
\* from row to row, the call for t0 + 0.5 day has failed
C14_Witness ==
  /\ InRangeCall
  /\ ThreeDailyRows
  /\ Halfway(1)
  /\ FileRow(1)[4] # FileRow(2)[4]
  /\ eopCall.status = "error"


\* the matrix component i builds in the last batch call, and its degree
BatchDegree(i) == DefaultHarmonics(tides[i], tdCall.epochs[1]).value.maxDegree

BatchMatrix(i) ==
  LET harm == DefaultHarmonics(tides[i], tdCall.epochs[1]).value
  IN  DeformationMatrix(tdCall.points, GravityOf(tdCall.points), LoveH, LoveL,
                        harm.GM, harm.R, harm.maxDegree)

\* C18: the matrix deformationMatrix returns for K points and degree N has
\* 3K rows (one triple per point) and (N+1)^2 columns, and the loops write
\* the columns n*n (order 0), n*n+2m-1 (cosine) and n*n+2m (sine) for
\* 0 <= n <= N, 1 <= m <= n: the indices are pairwise distinct and cover
\* every column 0..(N+1)^2-1 exactly once.
C18_ColumnsCoveredOnce ==
  (tdCall.op = "deformationBatch" /\ tdCall.status = "ok"
     /\ tdCall.epochs # <<>> /\ tdCall.points # <<>>)
  => \A i \in 1..Len(tides) :
       LET N      == BatchDegree(i)
           A      == BatchMatrix(i)
           writes == ColumnWrites(N)
       IN  /\ Len(A) = Len(tdCall.points)
           /\ \A k \in 1..Len(A) :
                /\ Len(A[k]) = (N + 1) * (N + 1)
                /\ \A c \in 1..Len(A[k]) : Len(A[k][c]) = 3
           /\ Len(writes) = (N + 1) * (N + 1)
           /\ \A c \in 0..((N + 1) * (N + 1) - 1) :
                Cardinality({w \in 1..Len(writes) : writes[w].col = c}) = 1
           /\ \A w \in 1..Len(writes) :
                /\ writes[w].n \in 0..N
                /\ writes[w].m \in 0..writes[w].n
                /\ writes[w].col = IF writes[w].m = 0
                                     THEN writes[w].n * writes[w].n
                                     ELSE writes[w].n * writes[w].n + 2 * writes[w].m
                                          - 1 + writes[w].cs
           /\ \A n \in 0..N : \A m \in 0..n :
                \E w \in 1..Len(writes) : writes[w].n = n /\ writes[w].m = m

\* a batch call on two points has returned in which a component of degree 2
\* has built its matrix of 9 columns
C18_Witness ==
  /\ tdCall.op = "deformationBatch"
  /\ tdCall.status = "ok"
  /\ Len(tdCall.points) = 2
  /\ tdCall.epochs # <<>>
  /\ \E i \in 1..Len(tides) :
       /\ BatchDegree(i) = 2
       /\ Len(BatchMatrix(i)[2]) = 9


\* the product of the matrix component i has built with the coefficients of
\* its field at epoch j of the last batch call: one triple per point
BatchProduct(i, j) ==
  MatrixTimes(BatchMatrix(i), DefaultHarmonics(tides[i], tdCall.epochs[j]).value.x)

DefaultOperationCall ==
  /\ tdPhase = "constructed"
  /\ Len(tides) = 1
  /\ \/ tdCall.op = "deformation"
     \/ /\ tdCall.op \in {"potential", "radialGradient", "acceleration", "gradient"}
        /\ ~Overrides(tides[1])

\* C20: a default operation of TidesBase (potential, radialGradient, gravity,
\* gravityGradient, single-point deformation) evaluates the component's own
\* sphericalHarmonics once, at the caller's time and rotation with the
\* default degree range, GM and R, and returns the operator of the same name
\* of that field at the caller's point; if the evaluation fails, so does the
\* operation.  An aggregate call evaluates one field per component that
\* relies on the default operation.
C20_DefaultsFollowTheField ==
  /\ tdCall.op \in {"potential", "radialGradient", "acceleration", "gradient", "deformation"}
       => tdCall.evals = Cardinality({i \in 1..tdCall.called :
                                        tdCall.op = "deformation" \/ ~Overrides(tides[i])})
  /\ DefaultOperationCall
       => LET field == ComponentHarmonics(tides[1], tdCall.e, InfinityDegree, 0,
                                          DefaultGM, DefaultR)
          IN  IF ~field.ok
                THEN tdCall.status = "error" /\ tdCall.error = field.error
                ELSE /\ tdCall.status = "ok"
                     /\ tdCall.evals = 1
                     /\ tdCall.value
                          = IF tdCall.op = "deformation"
                              THEN HarmonicsDeformation(field.value, tdCall.point,
                                                        Gravity(tdCall.point), LoveH, LoveL)
                              ELSE HarmonicsApply(ComponentOp(tdCall.op), field.value,
                                                  tdCall.point)

\* the radial gradient of a single component has been returned, and it is
\* not the potential of the component's field
C20_Witness ==
  /\ DefaultOperationCall
  /\ tdCall.op = "radialGradient"
  /\ tdCall.status = "ok"
  /\ tdCall.value # HarmonicsApply("potential", DefaultHarmonics(tides[1], tdCall.e).value,
                                   tdCall.point)


-----------------------------------------------------------------------------
(* Properties of the conditional time series *)

\* the variables the condition is to see at time t: those of the
\* configuration, with the loop-time variable, when named, holding the MJD of t
VariablesAt(t) ==
  IF tscConfig.variableLoopTime = ""
    THEN tscConfig.varList
    ELSE [n \in DOMAIN tscConfig.varList \cup {tscConfig.variableLoopTime} |->
            IF n = tscConfig.variableLoopTime THEN Rat(t, DayTicks)
                                              ELSE tscConfig.varList[n]]

\* the condition is met at time t
MetAt(t) == condition(tscConfig.condition, VariablesAt(t)).met

\* C15: a call of times() that returns gives exactly the times of the
\* underlying series at which the condition is met, in their order and with
\* their repetitions; the condition is evaluated once for every time of the
\* series, in order, and sees the loop-time variable, when named, set to the
\* MJD of that time.  The call fails if an evaluation of the condition fails.
C15_KeepsTimesMeetingCondition ==
  tscCall.status # "none"
  => IF \E i \in 1..Len(tscConfig.timeSeries) :
          ~condition(tscConfig.condition, VariablesAt(tscConfig.timeSeries[i])).ok
       THEN tscCall.status = "error"
       ELSE /\ tscCall.status = "ok"
            /\ tscCall.kept = SelectSeq(tscConfig.timeSeries, MetAt)
            /\ Len(tscCall.evaluated) = Len(tscConfig.timeSeries)
            /\ \A i \in 1..Len(tscConfig.timeSeries) :
                 /\ tscCall.evaluated[i].t = tscConfig.timeSeries[i]
                 /\ tscConfig.variableLoopTime # ""
                      => tscCall.evaluated[i].varList[tscConfig.variableLoopTime]
                           = Rat(tscConfig.timeSeries[i], DayTicks)

\* of a series of three times, the first and the last the same, the call has
\* kept those two and dropped the one between
C15_Witness ==
  /\ tscCall.status = "ok"
  /\ tscConfig.variableLoopTime # ""
  /\ Len(tscConfig.timeSeries) = 3
  /\ tscConfig.timeSeries[1] = tscConfig.timeSeries[3]
  /\ tscCall.kept = <<tscConfig.timeSeries[1], tscConfig.timeSeries[3]>>


-----------------------------------------------------------------------------
(* Properties of IfPrograms *)

\* C16 as claimed: outside the schema-creation mode the run executes the
\* nested programs if and only if the condition is true and, whether it is
\* true or false, afterwards calls programRemove exactly once.
C16_AlwaysRemovesOnce ==
  ifPhase \in {"done", "failed"}
  => /\ ifLog.ran = IF ifConfig.condition = "true" THEN ifConfig.programs ELSE <<>>
     /\ ifLog.removals = 1

\* C16, amended: the run evaluates the condition once and executes the
\* nested programs, in order, if and only if the condition is true; when it
\* comes to its end, whether the condition was true or false, it has called
\* programRemove exactly once, after the programs, and no program element is
\* left unread.  When the condition or a nested program throws, the
\* exception leaves the run: no further program is executed and
\* programRemove is not called.  In schema-creation mode the run declares
\* the program element, evaluates nothing and runs nothing.
C16_RemovesOnceWhenRunEnds ==
  /\ ifPhase = "schema"
       => /\ ifLog.declared
          /\ ifLog.evaluations = 0 /\ ifLog.ran = <<>> /\ ifLog.removals = 0
  /\ ifPhase \in {"done", "failed"}
       => /\ ifLog.evaluations = 1
          /\ ~ifLog.declared
          /\ (ifLog.ran # <<>>) => ifConfig.condition = "true"
          /\ ifLog.ran \o ifLog.unread
               = IF ifPhase = "failed" \/ ifConfig.condition = "true"
                   THEN ifConfig.programs ELSE <<>>
  /\ ifPhase = "done"
       => /\ ifConfig.condition \in {"true", "false"}
          /\ ifLog.ran = IF ifConfig.condition = "true" THEN ifConfig.programs ELSE <<>>
          /\ ifLog.removals = 1
          /\ ifLog.unread = <<>>
          /\ ifLog.error = ""
  /\ ifPhase = "failed"
       => /\ ifLog.removals = 0
          /\ ifLog.error # ""
          /\ \/ ifConfig.condition = "error" /\ ifLog.ran = <<>>
             \/ /\ ifConfig.condition = "true"
                /\ ifLog.ran # <<>>
                /\ ifLog.ran[Len(ifLog.ran)] = "fail"
                /\ \A i \in 1..(Len(ifLog.ran) - 1) : ifLog.ran[i] # "fail"

\* the condition was true, the first nested program has run and the second
\* has thrown: the third is left unread and programRemove has not been called
C16_Witness ==
  /\ ifPhase = "failed"
  /\ ifConfig.condition = "true"
  /\ Len(ifConfig.programs) = 3
  /\ Len(ifLog.ran) = 2
  /\ ifLog.unread = <<ifConfig.programs[3]>>
  /\ ifLog.removals = 0


-----------------------------------------------------------------------------
(* Properties of the queries taken together *)

\* what the aggregate call recorded in tdCall returns when it is made alone
\* on the component list
AloneTidesCall ==
  CASE tdCall.op \in {"potential", "radialGradient", "acceleration", "gradient"}
         -> Aggregate(tides, ComponentOp(tdCall.op), tdCall.e, tdCall.point)
    [] tdCall.op = "deformation"
         -> AggregateDeformation(tides, tdCall.e, tdCall.point, Gravity(tdCall.point),
                                 LoveH, LoveL)
    [] tdCall.op = "sphericalHarmonics"
         -> AggregateHarmonics(tides, tdCall.args)
    [] tdCall.op = "deformationBatch"
         -> LET r == AggregateDeformationBatch(tides, tdCall.epochs, tdCall.points,
                                               GravityOf(tdCall.points), LoveH, LoveL,
                                               tdCall.dispBefore)
            IN  [status |-> r.status, error |-> r.error, value |-> r.disp]

\* the interpolator as the constructor has left it, from the configuration
\* and the file it was given
AsConstructed ==
  IF eopFile.eopName = ""
    THEN [NoObject EXCEPT !.useTruncated = eopFile.truncatedNutation]
    ELSE [times        |-> [i \in 1..Len(eopFile.days) |-> mjd2time(eopFile.days[i])],
          EOP          |-> LoadedEOP(RawMatrix(eopFile)),
          polynomial   |-> PolynomialDegree,
          useTruncated |-> eopFile.truncatedNutation]

-----------------------------------------------------------------------------
(* Properties of the values earthOrientationParameter returns *)

\* the row the polynomial model yields at the instant of the last call: xp,
\* yp, UT1-GPS, LOD, dX, dY; zeros when no series is loaded (lines 79-80)
InterpolatedRow ==
  IF Len(er.EOP) = 0
    THEN <<RZero, RZero, RZero, RZero, RZero, RZero>>
    ELSE PolynomialInterpolate(er.polynomial, CallUTC, er.times, er.EOP).row

\* X, Y, S of the precession-nutation series the object is configured for, at
\* the instant of the last call
SeriesXYS ==
  LET tt == timeGPS2TT(eopCall.timeGPS)
  IN  IF er.useTruncated
        THEN eraXys00b(tt)
        ELSE <<eraXy06(tt)[1], eraXy06(tt)[2],
               eraS06(tt, eraXy06(tt)[1], eraXy06(tt)[2])>>

\* C21: a successful call returns X, Y, S of the truncated series when the
\* flag truncatedNutation is set and of the full series otherwise; in both
\* cases X is the series' X plus the interpolated offset dX, Y the series' Y
\* plus the interpolated dY, each offset added once, and S is the series' S
\* with no offset in it.
C21_OffsetsOnXYOnly ==
  eopCall.status = "ok"
  => /\ RSub(eopCall.out.X, SeriesXYS[1]) = InterpolatedRow[5]
     /\ RSub(eopCall.out.Y, SeriesXYS[2]) = InterpolatedRow[6]
     /\ eopCall.out.S = SeriesXYS[3]

\* a call on a loaded series has succeeded with the full series, both
\* interpolated offsets being different from zero
C21_Witness ==
  /\ Loaded
  /\ eopCall.status = "ok"
  /\ ~er.useTruncated
  /\ InterpolatedRow[5] # RZero
  /\ InterpolatedRow[6] # RZero
  /\ eopCall.out.S # eraXys00b(timeGPS2TT(eopCall.timeGPS))[3]


\* the deltaUT the call holds before the short-period corrections: the
\* interpolated UT1-GPS with GPS-UTC added back (line 89), zero when no
\* series is loaded
InterpolatedDeltaUT ==
  IF Len(er.EOP) = 0
    THEN RZero
    ELSE RAdd(InterpolatedRow[3], RInt(eopCall.timeGPS - CallUTC))

\* a correction given in micro arc seconds, in radians
MicroArcsecToRad(x) == RMul(RMul(RInt(x), Micro), ArcsecToRad)

\* a correction given in micro seconds, in seconds
MicroToUnit(x) == RMul(RInt(x), Micro)

\* C22: the short-period models are added on top of the interpolated values:
\* a successful call returns xp and yp as the interpolated value plus the
\* ocean-tide term plus the libration polar-motion term (micro arc seconds
\* scaled by 1e-6*DEG2RAD/3600), deltaUT as the interpolated value plus the
\* ocean-tide term plus the libration UT1 term, and LOD as the interpolated
\* value plus the libration LOD term alone (scaled by 1e-6); each correction
\* is in the result once.
C22_CorrectionsAddedOnce ==
  eopCall.status = "ok"
  => /\ RSub(eopCall.out.xp, InterpolatedRow[1])
          = RAdd(MicroArcsecToRad(ortho_eop(CallUTC)[1]),
                 MicroArcsecToRad(pmsdnut2(CallUTC)[1]))
     /\ RSub(eopCall.out.yp, InterpolatedRow[2])
          = RAdd(MicroArcsecToRad(ortho_eop(CallUTC)[2]),
                 MicroArcsecToRad(pmsdnut2(CallUTC)[2]))
     /\ RSub(eopCall.out.deltaUT, InterpolatedDeltaUT)
          = RAdd(MicroToUnit(ortho_eop(CallUTC)[3]), MicroToUnit(utlibr(CallUTC)[1]))
     /\ RSub(eopCall.out.LOD, InterpolatedRow[4]) = MicroToUnit(utlibr(CallUTC)[2])

\* a call between two samples of a loaded series has succeeded, the
\* interpolated xp, yp, deltaUT and LOD being different from zero
C22_Witness ==
  /\ Loaded
  /\ eopCall.status = "ok"
  /\ \A i \in 1..Len(er.times) : CallUTC # er.times[i]
  /\ InterpolatedRow[1] # RZero
  /\ InterpolatedRow[2] # RZero
  /\ InterpolatedDeltaUT # RZero
  /\ InterpolatedRow[4] # RZero


\* the last call asked for the instant of the first or of the last time
\* stamp of the loaded series
AtBoundary ==
  /\ Loaded
  /\ eopCall.status # "none"
  /\ CallUTC \in {er.times[1], er.times[Len(er.times)]}

\* C24: the coverage interval of the EOP series is closed: a call whose UTC
\* instant is exactly the first or exactly the last time stamp of the loaded
\* series does not raise the out-of-range error, and in a build with ERFA,
\* on a series long enough for the polynomial model, it succeeds.
C24_BoundaryInRange ==
  AtBoundary
  => /\ eopCall.error # ErrNoEop
     /\ (~nolibErfa /\ Len(er.times) > er.polynomial) => eopCall.status = "ok"

\* calls at the second before the last time stamp and at the last time
\* stamp itself have both succeeded
C24_Witness ==
  /\ AtBoundary
  /\ CallUTC = er.times[Len(er.times)]
  /\ CallUTC > er.times[1]
  /\ eopCall.status = "ok"
  /\ eopPrev.status = "ok"


\* the interpolator holds no EOP series and has been called
WithoutSeries ==
  erPhase = "constructed" /\ Len(er.EOP) = 0 /\ eopCall.status # "none"

\* C25: an interpolator constructed without an EOP series never raises the
\* out-of-range error, whatever the query time; in a build with ERFA every
\* call succeeds and returns the model corrections alone in xp, yp, deltaUT
\* and LOD (the interpolated values and dX, dY being zero) and the
\* precession-nutation values of the series in X, Y, S.
C25_EmptySeriesNeverOutOfRange ==
  WithoutSeries
  => /\ eopCall.error # ErrNoEop
     /\ ~nolibErfa
        => /\ eopCall.status = "ok"
           /\ eopCall.out.xp = RAdd(MicroArcsecToRad(ortho_eop(CallUTC)[1]),
                                    MicroArcsecToRad(pmsdnut2(CallUTC)[1]))
           /\ eopCall.out.yp = RAdd(MicroArcsecToRad(ortho_eop(CallUTC)[2]),
                                    MicroArcsecToRad(pmsdnut2(CallUTC)[2]))
           /\ eopCall.out.deltaUT = RAdd(MicroToUnit(ortho_eop(CallUTC)[3]),
                                         MicroToUnit(utlibr(CallUTC)[1]))
           /\ eopCall.out.LOD = MicroToUnit(utlibr(CallUTC)[2])
           /\ eopCall.out.sp = eraSp00(timeGPS2TT(eopCall.timeGPS))
           /\ eopCall.out.X = SeriesXYS[1]
           /\ eopCall.out.Y = SeriesXYS[2]
           /\ eopCall.out.S = SeriesXYS[3]

\* an interpolator configured with no file has answered two calls at
\* successive seconds, the later at the last query time of the model
C25_Witness ==
  /\ WithoutSeries
  /\ ~eopFile.createSchema
  /\ eopCall.status = "ok"
  /\ eopPrev.status = "ok"
  /\ \A t \in QueryTimes : t <= eopCall.timeGPS


-----------------------------------------------------------------------------
(* Properties of the batch deformation's array disp *)

\* the last call was a batch deformation that passed point k and epoch i
PassedElement(k, i) == k <= Len(tdCall.points) /\ i <= Len(tdCall.epochs)

\* C26: the batch deformation accumulates into the caller's array: after a
\* call that returns, disp has the dimensions it had before, disp[k][i] is,
\* for every point k and epoch i of the call, its value before the call plus
\* the sum of the contributions of all components, and every other element
\* is as before; when the list of times or the list of points is empty, disp
\* is unchanged and no component has evaluated its field.
C26_BatchAccumulates ==
  (tdCall.op = "deformationBatch" /\ tdCall.status = "ok")
  => /\ Len(tdCall.disp) = Len(tdCall.dispBefore)
     /\ \A k \in 1..Len(tdCall.dispBefore) :
          /\ Len(tdCall.disp[k]) = Len(tdCall.dispBefore[k])
          /\ \A i \in 1..Len(tdCall.dispBefore[k]) :
               LET added == IF PassedElement(k, i)
                              THEN ValueSum([c \in 1..Len(tides) |-> BatchProduct(c, i)[k]], 3)
                              ELSE Zero3
               IN  tdCall.disp[k][i] = ValueAdd(tdCall.dispBefore[k][i], added)
     /\ (tdCall.epochs = <<>> \/ tdCall.points = <<>>)
          => tdCall.disp = tdCall.dispBefore /\ tdCall.evals = 0

\* a batch of two components over two epochs and two points has returned on
\* an array that held values different from zero, and has changed them
C26_Witness ==
  /\ tdCall.op = "deformationBatch"
  /\ tdCall.status = "ok"
  /\ Len(tides) = 2
  /\ Len(tdCall.epochs) = 2
  /\ Len(tdCall.points) = 2
  /\ tdCall.dispBefore[2][2] # Zero3
  /\ BatchProduct(1, 2)[2] # Zero3
  /\ BatchProduct(2, 2)[2] # Zero3
  /\ tdCall.disp[2][2] # tdCall.dispBefore[2][2]


\* the epochs of the last batch call at which the field of component c
\* cannot be evaluated
FailingEpochs(c) ==
  {i \in 1..Len(tdCall.epochs) : ~DefaultHarmonics(tides[c], tdCall.epochs[i]).ok}

\* the epochs component c has added to disp before it raised its error: none
\* when the evaluation for the matrix (line 270) fails, otherwise those
\* before its first failing epoch
EpochsAdded(c) ==
  IF 1 \in FailingEpochs(c)
    THEN {}
    ELSE {i \in 1..Len(tdCall.epochs) : \A f \in FailingEpochs(c) : i < f}

\* what the call has added to disp[k][i] when component j was the one that
\* raised the error
AddedBeforeError(j, k, i) ==
  ValueAdd(ValueSum([c \in 1..(j - 1) |-> BatchProduct(c, i)[k]], 3),
           IF i \in EpochsAdded(j) THEN BatchProduct(j, i)[k] ELSE Zero3)

\* C27: the aggregator's batch deformation is not atomic: when component j
\* raises an error, at the evaluation for its matrix or at an epoch, the
\* error reaches the caller with disp holding, on top of its values before
\* the call, the contributions of the components before j for all epochs and
\* those of component j for the epochs before the failing one; disp is not
\* set back, and the components after j have added nothing.
C27_PartialSumsRemain ==
  (tdCall.op = "deformationBatch" /\ tdCall.status = "error")
  => LET j == tdCall.called
     IN  /\ j \in 1..Len(tides)
         /\ FailingEpochs(j) # {}
         /\ \A c \in 1..(j - 1) : FailingEpochs(c) = {}
         /\ \A k \in 1..Len(tdCall.points) : \A i \in 1..Len(tdCall.epochs) :
              tdCall.disp[k][i]
                = ValueAdd(tdCall.dispBefore[k][i], AddedBeforeError(j, k, i))

\* the second of two components has failed at the second epoch: disp holds
\* the first component's contributions and the second's for the first epoch,
\* and differs from its value before the call
C27_Witness ==
  /\ tdCall.op = "deformationBatch"
  /\ tdCall.status = "error"
  /\ tdCall.called = 2
  /\ FailingEpochs(2) = {2}
  /\ tdCall.points # <<>>
  /\ BatchProduct(1, 2)[1] # Zero3
  /\ BatchProduct(2, 1)[1] # Zero3
  /\ tdCall.disp[1][1] # tdCall.dispBefore[1][1]
  /\ tdCall.disp[1][2] # tdCall.dispBefore[1][2]


-----------------------------------------------------------------------------
(* Properties of the log file handling of groops main *)

\* the path of --log was an existing directory at every test so far
AlwaysDirectory == \A i \in 1..Len(mainTrace.tests) : mainTrace.tests[i]

\* the path of --log was no directory at any test so far
NeverDirectory == \A i \in 1..Len(mainTrace.tests) : ~mainTrace.tests[i]

\* the log file of script i inside the directory of --log: the script's
\* name without its directory, stamped with the time the script was started
ScriptLogFile(i) ==
  [dir   |-> mainArgs.logFileName.dir \o <<mainArgs.logFileName.base>>,
   base  |-> mainArgs.configFileNames[i].base,
   stamp |-> <<mainTrace.runs[i].time>>]

-----------------------------------------------------------------------------
(* Properties of concurrent calls of TimeSeriesConditional::times *)

\* what a call of times() made alone yields: the times at which the
\* condition is met, or an error when the condition cannot be evaluated
AloneFails == \E i \in 1..Len(tscConfig.timeSeries) :
                ~condition(tscConfig.condition, VariablesAt(tscConfig.timeSeries[i])).ok

AloneKept == SelectSeq(tscConfig.timeSeries, MetAt)

\* the call of caller c has evaluated the condition with the loop-time
\* variable holding a time other than that of its own element
SawForeignTime(c) ==
  /\ tsc.nameTime # ""
  /\ \E n \in 1..Len(tscThreads[c].evaluated) :
       LET e == tscThreads[c].evaluated[n]
       IN  e.varList[tsc.nameTime] # mjd(e.t)

\* C28: times() writes the loop-time variable of the object's shared
\* variable list before every evaluation of the condition: in a call that
\* has run alone so far, the shared list holds the MJD of the element the
\* call is about to evaluate.  A call that ran while no other call was under
\* way sees at every evaluation the time of its own element and yields what
\* the series and the condition determine; only a call that overlapped
\* another can see a time the other call has set, which is then the MJD of
\* some element of the series.
C28_SharedLoopTime ==
  \A c \in Callers :
    /\ (tscThreads[c].pc = "evaluate" /\ ~tscThreads[c].overlapped /\ tsc.nameTime # "")
         => tsc.varList[tsc.nameTime] = mjd(tsc.timeSeries[tscThreads[c].i])
    /\ SawForeignTime(c)
         => /\ tscThreads[c].overlapped
            /\ \A n \in 1..Len(tscThreads[c].evaluated) :
                 \E j \in 1..Len(tsc.timeSeries) :
                   tscThreads[c].evaluated[n].varList[tsc.nameTime]
                     = mjd(tsc.timeSeries[j])
    /\ (~tscThreads[c].overlapped /\ tscThreads[c].pc \in {"done", "failed"})
         => IF AloneFails
              THEN tscThreads[c].pc = "failed"
              ELSE /\ tscThreads[c].pc = "done"
                   /\ tscThreads[c].timesToKeep = AloneKept

\* two overlapping calls have both returned, one of them having evaluated
\* the condition with a time set by the other and having kept other times
\* than a call alone would
C28_Witness ==
  /\ \A c \in Callers : tscThreads[c].pc = "done" /\ tscThreads[c].overlapped
  /\ \E c \in Callers :
       /\ SawForeignTime(c)
       /\ tscThreads[c].timesToKeep # AloneKept
       /\ tscThreads[Other(c)].timesToKeep = AloneKept

=============================================================================
